---- MODULE Spec2Model ----
(***************************************************************************)
(* Model of the low-latency logger: the SPSC ring buffer                   *)
(* (internal/ring_buffer.h), the producer facade (include/logger.h) and    *)
(* the background consumer with its lifecycle (include/consumer.h).        *)
(*                                                                         *)
(* Threads: one producer calling Logger::Log, one worker thread running    *)
(* Consumer::Loop, one lifecycle controller calling Start / Stop.  Every   *)
(* access to a shared atomic or to a storage slot is a step of its own, so *)
(* that all interleavings of TryPush and TryPop are explored.              *)
(***************************************************************************)
EXTENDS Integers, Sequences, FiniteSets, TLC

(* ------------------------------ bounds --------------------------------- *)

\* log2 of the ring capacity (template parameter Capacity, a power of two)
CapBits == 2

\* width of the index counters (std::size_t in the source), scaled down
IndexBits == 3

\* number of Log calls with a non-null message the producer makes
MaxLog == 6

\* LOGGER_BACKEND_SPIN_COUNT, scaled down
SpinCount == 2
MaxTick == 2
TscBits == 2
MaxOvershoot == 1
MaxCalls == 3

(* --------------------------- ring constants ---------------------------- *)

RECURSIVE Pow2(_)
Pow2(n) == IF n = 0 THEN 1 ELSE 2 * Pow2(n - 1)

RECURSIVE BitAnd(_, _)
BitAnd(a, b) ==
    IF a = 0 \/ b = 0 THEN 0
    ELSE (IF a % 2 = 1 /\ b % 2 = 1 THEN 1 ELSE 0) + 2 * BitAnd(a \div 2, b \div 2)

kCapacity == Pow2(CapBits)

kMask == kCapacity - 1

IndexMod == Pow2(IndexBits)

\* unsigned arithmetic on std::size_t
\* variant of the index difference computed without the unsigned wrap
USubSigned(a, b) == a - b

USub(a, b) == (a - b + IndexMod) % IndexMod

\* variant of the index increment that skips a position
UIncTwo(a) == (a + 2) % IndexMod

UInc(a) == (a + 1) % IndexMod

Slots == 0 .. (kCapacity - 1)

\* the levels the producer logs at (include/level.h)
Levels == {"INFO"}

\* a slot of raw storage holding no live element; an unassigned local record
NoRecord == [level |-> "NONE", timestamp |-> 0, thread_id |-> 0, message |-> 0]

Min(a, b) == IF a < b THEN a ELSE b

\* std::hash of the producer's thread id
ProducerTid == 1

\* the null pointer passed as message
NullMsg == 0

VARIABLES
    write_index,     \* SpscRingBuffer::write_index_.value
    read_index,      \* SpscRingBuffer::read_index_.value
    storage,         \* SpscRingBuffer::storage_, one element per slot
    p_pc,            \* producer: position inside Log / PushRecord / TryPush
    p_write_idx,     \* TryPush local write_idx
    p_read_idx,      \* TryPush local read_idx
    p_record,        \* LogImpl local record
    log_message,     \* message / fmt argument of the current / last Log or LogFormat call
    log_call,        \* which entry point the current / last call came through
    log_result,      \* value returned by the last completed Log call
    next_msg,        \* number of non-null messages handed to Log so far
    try_push_calls,  \* TryPush attempts made by the current / last Log call
    dropped_count,   \* PushRecord static dropped_count
    pushed,          \* history: elements accepted by TryPush, in order
    popped,          \* history: elements returned by TryPop, in order
    is_running,      \* Consumer::is_running_
    thread_,         \* Consumer::thread_ : "none" or "joinable"
    m_pc,            \* lifecycle controller: position inside Start / Stop
    stop_mark,       \* history: Len(pushed) when the current Stop was called
    destroying,      \* destructor in progress: "no", "logger" (~Logger), "consumer" (~Consumer)
    spawns_in_run,   \* history: worker threads spawned since the last call of Stop
    joins_in_run,    \* history: joins performed since the last call of Start
    started_in_run,  \* history: a Start call has returned since the last call of Stop
    tsc,             \* the tick counter read by internal::ReadTsc
    calibration,     \* TscToNanoseconds static calibration: ticks_per_ns as num / den
    guard,           \* initialization guard of that static: "uninit", "pending", "done"
    init_runs,       \* history: times the initializer lambda was entered
    k_pc,            \* per calling thread: position inside TscToNanoseconds
    k_tsc,           \* per calling thread: the argument tsc
    k_c0,            \* per calling thread: the initializer's local c0
    conv_log,        \* history: [thread, tsc, ns] of every returned call, in order
    c_pc,            \* worker: position inside Consumer::Loop
    tp_pc,           \* worker: position inside TryPop
    c_write_idx,     \* TryPop local write_idx
    c_read_idx,      \* TryPop local read_idx
    tp_nonempty,     \* history: a published element was in the ring when TryPop loaded write_index_
    record,          \* Loop local record
    spin_i,          \* Loop local i
    found_activity,  \* Loop local found_activity
    sink_writes,     \* lines handed to Sink::Write, in order
    sink_last,       \* last call made on the sink: "none", "write", "flush"
    file_,           \* FileSink::file_ : "open", or "null" when fopen failed
    io_error,        \* the device under file_ can fail an fwrite or an fflush
    last_error,      \* the ErrorCode last passed to ReportError, or "None"
    lrec,            \* a LogRecord exercised on its own: its fields, message as bytes
    rec_op,          \* the last call made on lrec
    rec_in,          \* the text that call was given (FormatMessage: the rendered text)
    rec_ret,         \* the value that call returned
    scratch_buffer,  \* Loop's scratch_buffer after FormatRecord(lrec, ...), up to the NUL
    fr_buffer,       \* the char * a FormatRecord call was given: the bytes behind it, from
                     \* index 0, and the set of indices stored to
    fr_capacity,     \* the capacity that call was given
    m2_pc,           \* a second thread making lifecycle calls: position inside Start / Stop
    o_pc,            \* a thread calling Size(): position inside the call
    o_w,             \* Size local w
    size_ret         \* the value the last Size() call returned

ringVars == <<write_index, read_index, storage>>
prodVars == <<p_pc, p_write_idx, p_read_idx, p_record, log_message, log_call, log_result, next_msg,
              try_push_calls, dropped_count, pushed>>
ctrlVars == <<is_running, thread_, m_pc, stop_mark, destroying, spawns_in_run,
              joins_in_run, started_in_run>>
calibVars == <<calibration, guard, init_runs, k_pc, k_tsc, k_c0, conv_log>>
clockVars == <<tsc, calibVars>>
consVars == <<c_pc, tp_pc, c_write_idx, c_read_idx, tp_nonempty, record, spin_i,
              found_activity, popped>>
sinkVars == <<sink_writes, sink_last, file_, io_error, last_error>>
recVars == <<lrec, rec_op, rec_in, rec_ret, scratch_buffer, fr_buffer, fr_capacity>>
raceVars == <<m2_pc>>
obsVars == <<o_pc, o_w, size_ret>>

vars == <<write_index, read_index, storage, p_pc, p_write_idx, p_read_idx,
          p_record, log_message, log_call, log_result, next_msg, try_push_calls, dropped_count,
          pushed, popped, is_running, thread_, m_pc, stop_mark, destroying,
          spawns_in_run, joins_in_run, started_in_run, tsc,
          calibration, guard, init_runs, k_pc, k_tsc, k_c0, conv_log,
          c_pc, tp_pc, c_write_idx, c_read_idx, tp_nonempty, record, spin_i,
          found_activity, sink_writes, sink_last, file_, io_error, last_error,
          lrec, rec_op, rec_in, rec_ret, scratch_buffer, fr_buffer, fr_capacity,
          m2_pc, o_pc, o_w, size_ret>>

\* no record is being exercised on its own
\* a FileSink whose fopen succeeded on a device that does not fail, or a
\* ConsoleSink; nothing reported yet
SinkHealthy ==
    /\ file_ = "open"
    /\ io_error = FALSE
    /\ last_error = "None"

\* the threads that call TscToNanoseconds
CallerThreads == {1, 2}

\* no conversion made yet: the static is zero-initialized and unguarded
ClockIdle ==
    /\ calibration = [num |-> 0, den |-> 1]
    /\ guard = "uninit"
    /\ init_runs = 0
    /\ k_pc = [t \in CallerThreads |-> "idle"]
    /\ k_tsc = [t \in CallerThreads |-> 0]
    /\ k_c0 = [t \in CallerThreads |-> 0]
    /\ conv_log = <<>>

\* a char * that is the null pointer: no memory behind it
NullBuffer == [null |-> TRUE, mem |-> <<>>, stored |-> {}]

\* no second lifecycle thread and no Size() caller at work
ProbesIdle ==
    /\ m2_pc = "idle"
    /\ o_pc = "idle"
    /\ o_w = 0
    /\ size_ret = 0

UnitIdle ==
    /\ lrec = NoRecord
    /\ rec_op = "none"
    /\ rec_in = <<>>
    /\ rec_ret = 0
    /\ scratch_buffer = <<>>
    /\ fr_buffer = NullBuffer
    /\ fr_capacity = 0

\* the logger as constructed: empty ring, consumer stopped, no worker
ConstructedLogger ==
    /\ write_index = 0
    /\ read_index = 0
    /\ storage = [s \in Slots |-> NoRecord]
    /\ p_pc = "idle"
    /\ p_write_idx = 0
    /\ p_read_idx = 0
    /\ p_record = NoRecord
    /\ log_message = NullMsg
    /\ log_call = "None"
    /\ log_result = "None"
    /\ next_msg = 0
    /\ try_push_calls = 0
    /\ dropped_count = 0
    /\ pushed = <<>>
    /\ popped = <<>>
    /\ is_running = FALSE
    /\ thread_ = "none"
    /\ m_pc = "idle"
    /\ stop_mark = 0
    /\ ProbesIdle
    /\ destroying = "no"
    /\ spawns_in_run = 0
    /\ joins_in_run = 0
    /\ started_in_run = FALSE
    /\ tsc = 0
    /\ c_pc = "none"
    /\ tp_pc = "none"
    /\ c_write_idx = 0
    /\ c_read_idx = 0
    /\ tp_nonempty = FALSE
    /\ record = NoRecord
    /\ spin_i = 0
    /\ found_activity = FALSE
    /\ sink_writes = <<>>
    /\ sink_last = "none"
    /\ SinkHealthy

\* the state after construction, no tick converted yet
Constructed == ConstructedLogger /\ ClockIdle

Init == Constructed /\ UnitIdle

(* ----------------------- tick source (platform.h) ---------------------- *)

\* variant of ReadTsc that returns only the lowest bit of the counter
ReadTscLowBit == tsc % 2

\* internal::ReadTsc(): the current value of the tick counter
ReadTsc == tsc

\* the tick counter advances on its own, never backwards
TscTick ==
    /\ tsc < MaxTick
    /\ tsc' = tsc + 1
    /\ UNCHANGED calibVars
    /\ UNCHANGED <<ringVars, prodVars, ctrlVars, consVars, sinkVars, recVars, raceVars, obsVars>>

(* ------------------- TscToNanoseconds (clock.cpp) ---------------------- *)

\* the counter a thread reads can be behind the one it read before: the
\* counters of different cores are not synchronized
TscSkew ==
    /\ tsc > 0
    /\ \E v \in 0 .. tsc - 1 : tsc' = v
    /\ UNCHANGED calibVars
    /\ UNCHANGED <<ringVars, prodVars, ctrlVars, consVars, sinkVars, recVars, raceVars, obsVars>>

\* the tick values are TscBits wide
TscMod == Pow2(TscBits)

\* the initializer spins for 1 ms
kCalibrationNs == 1000000

\* the nanoseconds the initializer measures: the spin ends at the first
\* clock reading that is kCalibrationNs or more after t0
ElapsedNs == kCalibrationNs .. kCalibrationNs + MaxOvershoot

\* the conversion touches no state of the logger
LoggerIdle == UNCHANGED <<ringVars, prodVars, ctrlVars, consVars, sinkVars, recVars, raceVars, obsVars>>

\* ticks_per_ns = (ns > 0) ? double(c1 - c0) / double(ns) : 0.0, with c1 - c0
\* unsigned, and 1.0 in place of a quotient that is not positive
TicksPerNs(c0, c1, ns) ==
    LET q == IF ns > 0 THEN [num |-> (c1 - c0 + TscMod) % TscMod, den |-> ns]
                       ELSE [num |-> 0, den |-> 1]
    IN  IF q.num <= 0 THEN [num |-> 1, den |-> 1] ELSE q

\* the value returned: 0 without a positive calibration, else
\* uint64(double(tsc) / ticks_per_ns), the quotient truncated
Convert(t, cal) == IF cal.num <= 0 THEN 0 ELSE (t * cal.den) \div cal.num

\* a thread calls TscToNanoseconds(tsc) with the tick value of a record
Tsc_Call(t) ==
    /\ k_pc[t] = "idle"
    /\ Len(conv_log) + Cardinality({u \in CallerThreads : k_pc[u] # "idle"}) < MaxCalls
    /\ \E v \in 0 .. MaxTick : k_tsc' = [k_tsc EXCEPT ![t] = v]
    /\ k_pc' = [k_pc EXCEPT ![t] = "guard"]
    /\ UNCHANGED <<tsc, calibration, guard, init_runs, k_c0, conv_log>>
    /\ LoggerIdle

\* variant of the guard that lets every thread that finds the static not
\* yet initialized run the initializer
Tsc_GuardUnlocked(t) ==
    /\ k_pc[t] = "guard"
    /\ IF guard = "done"
       THEN /\ k_pc' = [k_pc EXCEPT ![t] = "convert"]
            /\ UNCHANGED <<guard, init_runs>>
       ELSE /\ guard' = "pending"
            /\ init_runs' = init_runs + 1
            /\ k_pc' = [k_pc EXCEPT ![t] = "c0"]
    /\ UNCHANGED <<tsc, calibration, k_tsc, k_c0, conv_log>>
    /\ LoggerIdle

\* the function-local static: the first thread to arrive runs the
\* initializer, a thread that arrives meanwhile waits until it is done
Tsc_Guard(t) ==
    /\ k_pc[t] = "guard"
    /\ guard # "pending"
    /\ IF guard = "done"
       THEN /\ k_pc' = [k_pc EXCEPT ![t] = "convert"]
            /\ UNCHANGED <<guard, init_runs>>
       ELSE /\ guard' = "pending"
            /\ init_runs' = init_runs + 1
            /\ k_pc' = [k_pc EXCEPT ![t] = "c0"]
    /\ UNCHANGED <<tsc, calibration, k_tsc, k_c0, conv_log>>
    /\ LoggerIdle

\* initializer: t0 = clock::now(); c0 = ReadTsc()
Tsc_ReadC0(t) ==
    /\ k_pc[t] = "c0"
    /\ k_c0' = [k_c0 EXCEPT ![t] = ReadTsc]
    /\ k_pc' = [k_pc EXCEPT ![t] = "spin"]
    /\ UNCHANGED <<tsc, calibration, guard, init_runs, k_tsc, conv_log>>
    /\ LoggerIdle

\* initializer: the spin ends, c1 = ReadTsc(), the quotient is computed and
\* the static becomes initialized
Tsc_Calibrate(t) ==
    /\ k_pc[t] = "spin"
    /\ \E ns \in ElapsedNs : calibration' = TicksPerNs(k_c0[t], ReadTsc, ns)
    /\ guard' = "done"
    /\ k_pc' = [k_pc EXCEPT ![t] = "convert"]
    /\ UNCHANGED <<tsc, init_runs, k_tsc, k_c0, conv_log>>
    /\ LoggerIdle

\* the division and the return
Tsc_Return(t) ==
    /\ k_pc[t] = "convert"
    /\ conv_log' = Append(conv_log, [thread |-> t, tsc |-> k_tsc[t],
                                     ns |-> Convert(k_tsc[t], calibration)])
    /\ k_pc' = [k_pc EXCEPT ![t] = "idle"]
    /\ UNCHANGED <<tsc, calibration, guard, init_runs, k_tsc, k_c0>>
    /\ LoggerIdle

TscToNanoseconds(t) ==
    \/ Tsc_Call(t)
    \/ Tsc_Guard(t)
    \/ Tsc_ReadC0(t)
    \/ Tsc_Calibrate(t)
    \/ Tsc_Return(t)

(* ------------------- SpscRingBuffer (ring_buffer.h) -------------------- *)

\* variants of the full test: off by one (all slots used), one slot early, one slot late
IsFullAllSlots(w, r) == USub(w, r) >= kCapacity

IsFullEarly(w, r) == USub(w, r) >= kCapacity - 2

IsFullLate(w, r) == USub(w, r) >= kCapacity + 1

\* full test of TryPush: static_cast<size_t>(write_idx - read_idx) >= kCapacity - 1
IsFull(w, r) == USub(w, r) >= kCapacity - 1

\* variants of the empty test: wrong comparison, one element treated as empty
IsEmptyGreater(w, r) == r > w

IsEmptyOneLeft(w, r) == USub(w, r) <= 1

\* empty test of TryPop: read_idx == write_idx
IsEmpty(w, r) == r = w

\* variant of the slot computation: a mask one bit short
SlotOfShortMask(idx) == BitAnd(idx, kMask \div 2)

\* slot addressed by an index: idx & kMask
SlotOf(idx) == BitAnd(idx, kMask)

\* variant of Size() whose difference is not reduced to the index width
SizeNoWrap == write_index - read_index

\* Size(): w - r on relaxed loads of both indices
Size == USub(write_index, read_index)

\* Empty(): Size() == 0
Empty == Size = 0

\* Full(): Size() >= kCapacity - 1
Full == Size >= kCapacity - 1

(* ----------------------- producer (logger.h) --------------------------- *)

\* variant of LogImpl without the null check
LogImplNoNullCheck(level, message) ==
    /\ p_pc = "idle"
    /\ destroying = "no"
    /\ try_push_calls' = 0
    /\ log_message' = message
    /\ log_call' = "Log"
    /\ (message # NullMsg => next_msg < MaxLog)
    /\ next_msg' = IF message = NullMsg THEN next_msg ELSE next_msg + 1
    /\ p_record' = [level |-> level, timestamp |-> ReadTsc, thread_id |-> ProducerTid,
                     message |-> message]
    /\ log_result' = "None"
    /\ p_pc' = "push"
    /\ UNCHANGED <<p_write_idx, p_read_idx, dropped_count, pushed>>
    /\ UNCHANGED <<ringVars, ctrlVars, consVars, sinkVars>>
    /\ UNCHANGED <<clockVars, recVars, raceVars, obsVars>>

\* LogImpl up to the call of PushRecord: null check, PrepareRecord, SetMessage
LogImpl(level, message) ==
    /\ p_pc = "idle"
    /\ destroying = "no"
    /\ try_push_calls' = 0
    /\ log_message' = message
    /\ log_call' = "Log"
    /\ IF message = NullMsg
       THEN /\ log_result' = "Error"
            /\ UNCHANGED <<p_pc, p_record, next_msg>>
       ELSE /\ next_msg < MaxLog
            /\ next_msg' = next_msg + 1
            /\ p_record' = [level |-> level, timestamp |-> ReadTsc, thread_id |-> ProducerTid,
                     message |-> message]
            /\ log_result' = "None"
            /\ p_pc' = "push"
    /\ UNCHANGED <<p_write_idx, p_read_idx, dropped_count, pushed>>
    /\ UNCHANGED <<ringVars, ctrlVars, consVars, sinkVars>>
    /\ UNCHANGED <<clockVars, recVars, raceVars, obsVars>>

\* Logger::Log(level, message); the n-th non-null message is the number n
Log == \E level \in Levels : \E message \in {NullMsg, next_msg + 1} :
           LogImpl(level, message)

\* PushRecord calls TryPush; TryPush loads write_index_ (relaxed)
TryPush_LoadWrite ==
    /\ p_pc = "push"
    /\ try_push_calls' = try_push_calls + 1
    /\ p_write_idx' = write_index
    /\ p_pc' = "load_r"
    /\ UNCHANGED <<p_read_idx, p_record, log_message, log_call, log_result, next_msg, dropped_count, pushed>>
    /\ UNCHANGED <<ringVars, ctrlVars, consVars, sinkVars>>
    /\ UNCHANGED <<clockVars, recVars, raceVars, obsVars>>

\* TryPush loads read_index_ (acquire)
TryPush_LoadRead ==
    /\ p_pc = "load_r"
    /\ p_read_idx' = read_index
    /\ p_pc' = "check"
    /\ UNCHANGED <<p_write_idx, p_record, log_message, log_call, log_result, next_msg, try_push_calls,
                   dropped_count, pushed>>
    /\ UNCHANGED <<ringVars, ctrlVars, consVars, sinkVars>>
    /\ UNCHANGED <<clockVars, recVars, raceVars, obsVars>>

\* TryPush full check: return false, or go on to construct the element
\* variant of the full check that is made after the element was written
TryPush_CheckAfterConstruct ==
    /\ p_pc = "check"
    /\ storage' = [storage EXCEPT ![SlotOf(p_write_idx)] = p_record]
    /\ p_pc' = IF IsFull(p_write_idx, p_read_idx) THEN "full" ELSE "construct"
    /\ UNCHANGED <<p_write_idx, p_read_idx, p_record, log_message, log_call, log_result, next_msg,
                   try_push_calls, dropped_count, pushed>>
    /\ UNCHANGED <<write_index, read_index, ctrlVars, consVars, sinkVars>>
    /\ UNCHANGED <<clockVars, recVars, raceVars, obsVars>>

\* TryPush full check: return false to PushRecord, or go on to the slot
TryPush_Check ==
    /\ p_pc = "check"
    /\ p_pc' = IF IsFull(p_write_idx, p_read_idx) THEN "full" ELSE "construct"
    /\ UNCHANGED <<p_write_idx, p_read_idx, p_record, log_message, log_call, log_result, next_msg,
                   try_push_calls, dropped_count, pushed>>
    /\ UNCHANGED <<ringVars, ctrlVars, consVars, sinkVars>>
    /\ UNCHANGED <<clockVars, recVars, raceVars, obsVars>>

\* TryPush placement-new of the element into slot write_idx & kMask
TryPush_Construct ==
    /\ p_pc = "construct"
    /\ storage' = [storage EXCEPT ![SlotOf(p_write_idx)] = p_record]
    /\ p_pc' = "publish"
    /\ UNCHANGED <<write_index, read_index>>
    /\ UNCHANGED <<p_write_idx, p_read_idx, p_record, log_message, log_call, log_result, next_msg,
                   try_push_calls, dropped_count, pushed>>
    /\ UNCHANGED <<ctrlVars, consVars, sinkVars>>
    /\ UNCHANGED <<clockVars, recVars, raceVars, obsVars>>

\* TryPush stores write_idx + 1 (release) and returns true; Log returns Success
TryPush_Publish ==
    /\ p_pc = "publish"
    /\ write_index' = UInc(p_write_idx)
    /\ pushed' = Append(pushed, p_record)
    /\ log_result' = "Success"
    /\ p_pc' = "idle"
    /\ UNCHANGED <<read_index, storage>>
    /\ UNCHANGED <<p_write_idx, p_read_idx, p_record, log_message, log_call, next_msg,
                   try_push_calls, dropped_count>>
    /\ UNCHANGED <<ctrlVars, consVars, sinkVars>>
    /\ UNCHANGED <<clockVars, recVars, raceVars, obsVars>>

\* variant of PushRecord that retries the push instead of returning
PushRecord_Retry ==
    /\ p_pc = "full"
    /\ dropped_count' = dropped_count + 1
    /\ p_pc' = "push"
    /\ UNCHANGED <<p_write_idx, p_read_idx, p_record, log_message, log_call, log_result, next_msg,
                   try_push_calls, pushed>>
    /\ UNCHANGED <<ringVars, ctrlVars, consVars, sinkVars>>
    /\ UNCHANGED <<clockVars, recVars, raceVars, obsVars>>

\* variant of PushRecord that returns BufferFull without counting the drop
PushRecord_NoCount ==
    /\ p_pc = "full"
    /\ log_result' = "BufferFull"
    /\ p_pc' = "idle"
    /\ UNCHANGED <<p_write_idx, p_read_idx, p_record, log_message, log_call, next_msg,
                   try_push_calls, dropped_count, pushed>>
    /\ UNCHANGED <<ringVars, ctrlVars, consVars, sinkVars>>
    /\ UNCHANGED <<clockVars, recVars, raceVars, obsVars>>

\* PushRecord after TryPush returned false: count the drop, return BufferFull
PushRecord_Full ==
    /\ p_pc = "full"
    /\ dropped_count' = dropped_count + 1
    /\ log_result' = "BufferFull"
    /\ p_pc' = "idle"
    /\ UNCHANGED <<p_write_idx, p_read_idx, p_record, log_message, log_call, next_msg,
                   try_push_calls, pushed>>
    /\ UNCHANGED <<ringVars, ctrlVars, consVars, sinkVars>>
    /\ UNCHANGED <<clockVars, recVars, raceVars, obsVars>>

\* text stored by FormatMessage when fmt is null: message[0] = 0, length 0
EmptyText == 0

\* Logger::LogFormat(level, fmt, args...): PrepareRecord, FormatMessage, then
\* PushRecord; fmt is not examined by LogFormat itself. The n-th call with a
\* fmt renders the text number n.
LogFormat ==
    \E level \in Levels : \E fmt \in {NullMsg, next_msg + 1} :
        /\ p_pc = "idle"
        /\ destroying = "no"
        /\ next_msg < MaxLog
        /\ next_msg' = next_msg + 1
        /\ try_push_calls' = 0
        /\ log_message' = fmt
        /\ log_call' = "LogFormat"
        /\ p_record' = [level |-> level, timestamp |-> ReadTsc, thread_id |-> ProducerTid,
                         message |-> IF fmt = NullMsg THEN EmptyText ELSE fmt]
        /\ log_result' = "None"
        /\ p_pc' = "push"
        /\ UNCHANGED <<p_write_idx, p_read_idx, dropped_count, pushed>>
        /\ UNCHANGED <<ringVars, ctrlVars, consVars, sinkVars>>
        /\ UNCHANGED <<clockVars, recVars, raceVars, obsVars>>

Producer ==
    \/ Log
    \/ TryPush_LoadWrite
    \/ TryPush_LoadRead
    \/ TryPush_Check
    \/ TryPush_Construct
    \/ TryPush_Publish
    \/ PushRecord_Full

(* ---------------- formatter and sink (formatter.h, sink.h) ------------- *)

\* the line TextFormatter::FormatRecord renders for a record without source
\* location, field by field: "[timestamp] [LEVEL] [tid=id] message\n"
FormatRecord(rec) ==
    <<"[", rec.timestamp, "] [", rec.level, "] [tid=", rec.thread_id, "] ", rec.message, "\n">>

\* what an fwrite or fflush on the open file can answer: TRUE is success
IoOutcomes == IF io_error THEN {TRUE, FALSE} ELSE {TRUE}

\* FileSink::Write: nothing without a file; a short fwrite is reported
\* through ReportError and the call returns normally (the lines the worker
\* formats are never empty)
FileSink_Write ==
    IF file_ = "null"
    THEN UNCHANGED last_error
    ELSE \E ok \in IoOutcomes : last_error' = IF ok THEN last_error ELSE "WriteFailed"

\* FileSink::Flush: nothing without a file; a failed fflush is reported
\* through ReportError and the call returns normally
FileSink_Flush ==
    IF file_ = "null"
    THEN UNCHANGED last_error
    ELSE \E ok \in IoOutcomes : last_error' = IF ok THEN last_error ELSE "FlushFailed"

\* Sink::Write(data, len): the line is handed to the sink
SinkWrite(line) ==
    /\ sink_writes' = Append(sink_writes, line)
    /\ sink_last' = "write"
    /\ FileSink_Write
    /\ UNCHANGED <<file_, io_error>>

\* Sink::Flush()
SinkFlush ==
    /\ sink_last' = "flush"
    /\ FileSink_Flush
    /\ UNCHANGED <<sink_writes, file_, io_error>>

(* ------------------ TryPop, called by the worker ----------------------- *)

\* where Loop continues when TryPop returns false
PopFailed(site) == IF site = "fast_pop" THEN "flush" ELSE "spin"

\* where Loop continues when TryPop returns true
PopSucceeded(site) == IF site = "fast_pop" THEN "fast_write" ELSE "after_spin"

\* TryPop loads write_index_ (acquire)
TryPop_LoadWrite ==
    /\ c_pc \in {"fast_pop", "spin_pop"}
    /\ tp_pc = "load_w"
    /\ c_write_idx' = write_index
    /\ tp_nonempty' = (Len(pushed) > Len(popped))
    /\ tp_pc' = "load_r"
    /\ UNCHANGED <<c_pc, c_read_idx, record, spin_i, found_activity, popped>>
    /\ UNCHANGED <<ringVars, prodVars, ctrlVars, sinkVars>>
    /\ UNCHANGED <<clockVars, recVars, raceVars, obsVars>>

\* TryPop loads read_index_ (relaxed)
TryPop_LoadRead ==
    /\ c_pc \in {"fast_pop", "spin_pop"}
    /\ tp_pc = "load_r"
    /\ c_read_idx' = read_index
    /\ tp_pc' = "check"
    /\ UNCHANGED <<c_pc, c_write_idx, tp_nonempty, record, spin_i, found_activity, popped>>
    /\ UNCHANGED <<ringVars, prodVars, ctrlVars, sinkVars>>
    /\ UNCHANGED <<clockVars, recVars, raceVars, obsVars>>

\* TryPop empty check: return false to the caller, or go on to the slot.
\* On false the spin loop runs ++i.
TryPop_Check ==
    /\ c_pc \in {"fast_pop", "spin_pop"}
    /\ tp_pc = "check"
    /\ IF IsEmpty(c_write_idx, c_read_idx)
       THEN /\ tp_pc' = "none"
            /\ c_pc' = PopFailed(c_pc)
            /\ spin_i' = IF c_pc = "spin_pop" THEN spin_i + 1 ELSE spin_i
       ELSE /\ tp_pc' = "move"
            /\ UNCHANGED <<c_pc, spin_i>>
    /\ UNCHANGED <<c_write_idx, c_read_idx, tp_nonempty, record, found_activity, popped>>
    /\ UNCHANGED <<ringVars, prodVars, ctrlVars, sinkVars>>
    /\ UNCHANGED <<clockVars, recVars, raceVars, obsVars>>

\* TryPop: out_element = std::move(*slot)
TryPop_Move ==
    /\ c_pc \in {"fast_pop", "spin_pop"}
    /\ tp_pc = "move"
    /\ record' = storage[SlotOf(c_read_idx)]
    /\ tp_pc' = "destroy"
    /\ UNCHANGED <<c_pc, c_write_idx, c_read_idx, tp_nonempty, spin_i, found_activity, popped>>
    /\ UNCHANGED <<ringVars, prodVars, ctrlVars, sinkVars>>
    /\ UNCHANGED <<clockVars, recVars, raceVars, obsVars>>

\* variant of TryPop that leaves the element in the slot alive
TryPop_DestroySkipped ==
    /\ c_pc \in {"fast_pop", "spin_pop"}
    /\ tp_pc = "destroy"
    /\ tp_pc' = "publish"
    /\ UNCHANGED <<c_pc, c_write_idx, c_read_idx, tp_nonempty, record, spin_i, found_activity, popped>>
    /\ UNCHANGED <<ringVars, prodVars, ctrlVars, sinkVars>>
    /\ UNCHANGED <<clockVars, recVars, raceVars, obsVars>>

\* TryPop: slot->~T()
TryPop_Destroy ==
    /\ c_pc \in {"fast_pop", "spin_pop"}
    /\ tp_pc = "destroy"
    /\ storage' = [storage EXCEPT ![SlotOf(c_read_idx)] = NoRecord]
    /\ tp_pc' = "publish"
    /\ UNCHANGED <<write_index, read_index>>
    /\ UNCHANGED <<c_pc, c_write_idx, c_read_idx, tp_nonempty, record, spin_i, found_activity, popped>>
    /\ UNCHANGED <<prodVars, ctrlVars, sinkVars>>
    /\ UNCHANGED <<clockVars, recVars, raceVars, obsVars>>

\* TryPop stores read_idx + 1 (release) and returns true to the caller.
\* In the spin loop the caller sets found_activity and breaks.
TryPop_Publish ==
    /\ c_pc \in {"fast_pop", "spin_pop"}
    /\ tp_pc = "publish"
    /\ read_index' = UInc(c_read_idx)
    /\ popped' = Append(popped, record)
    /\ tp_pc' = "none"
    /\ c_pc' = PopSucceeded(c_pc)
    /\ found_activity' = (c_pc = "spin_pop")
    /\ spin_i' = 0
    /\ UNCHANGED <<write_index, storage>>
    /\ UNCHANGED <<c_write_idx, c_read_idx, tp_nonempty, record>>
    /\ UNCHANGED <<prodVars, ctrlVars, sinkVars>>
    /\ UNCHANGED <<clockVars, recVars, raceVars, obsVars>>

(* ------------------ Consumer::Loop (consumer.h) ------------------------ *)

\* variant of the loop condition that keeps draining a non-empty ring after
\* the flag was cleared
Loop_WhileDrains ==
    /\ c_pc = "while"
    /\ IF is_running \/ write_index # read_index
       THEN /\ c_pc' = "fast_pop"
            /\ tp_pc' = "load_w"
       ELSE /\ c_pc' = "shutdown"
            /\ UNCHANGED tp_pc
    /\ UNCHANGED <<c_write_idx, c_read_idx, tp_nonempty, record, spin_i, found_activity, popped>>
    /\ UNCHANGED <<ringVars, prodVars, ctrlVars, sinkVars>>
    /\ UNCHANGED <<clockVars, recVars, raceVars, obsVars>>

\* while (is_running_.load()): enter the fast-path TryPop or leave the loop
Loop_While ==
    /\ c_pc = "while"
    /\ IF is_running
       THEN /\ c_pc' = "fast_pop"
            /\ tp_pc' = "load_w"
       ELSE /\ c_pc' = "shutdown"
            /\ UNCHANGED tp_pc
    /\ UNCHANGED <<c_write_idx, c_read_idx, tp_nonempty, record, spin_i, found_activity, popped>>
    /\ UNCHANGED <<ringVars, prodVars, ctrlVars, sinkVars>>
    /\ UNCHANGED <<clockVars, recVars, raceVars, obsVars>>

\* variant of the fast path that flushes the sink after every record
Loop_FastWriteFlushes ==
    /\ c_pc = "fast_write"
    /\ sink_writes' = Append(sink_writes, FormatRecord(record))
    /\ sink_last' = "flush"
    /\ UNCHANGED <<file_, io_error, last_error>>
    /\ c_pc' = "while"
    /\ UNCHANGED <<tp_pc, c_write_idx, c_read_idx, tp_nonempty, record, spin_i, found_activity, popped>>
    /\ UNCHANGED <<ringVars, prodVars, ctrlVars>>
    /\ UNCHANGED <<clockVars, recVars, raceVars, obsVars>>

\* variant of the fast path that leaves the loop when the write was reported
\* as failed
Loop_FastWriteFatal ==
    /\ c_pc = "fast_write"
    /\ SinkWrite(FormatRecord(record))
    /\ c_pc' = IF last_error' = "WriteFailed" THEN "exited" ELSE "while"
    /\ UNCHANGED <<tp_pc, c_write_idx, c_read_idx, tp_nonempty, record, spin_i, found_activity, popped>>
    /\ UNCHANGED <<ringVars, prodVars, ctrlVars>>
    /\ UNCHANGED <<clockVars, recVars, raceVars, obsVars>>

\* fast path: FormatRecord, sink_.Write, continue
Loop_FastWrite ==
    /\ c_pc = "fast_write"
    /\ SinkWrite(FormatRecord(record))
    /\ c_pc' = "while"
    /\ UNCHANGED <<tp_pc, c_write_idx, c_read_idx, tp_nonempty, record, spin_i, found_activity, popped>>
    /\ UNCHANGED <<ringVars, prodVars, ctrlVars>>
    /\ UNCHANGED <<clockVars, recVars, raceVars, obsVars>>

\* empty path: sink_.Flush(), found_activity = false, i = 0
Loop_Flush ==
    /\ c_pc = "flush"
    /\ SinkFlush
    /\ found_activity' = FALSE
    /\ spin_i' = 0
    /\ c_pc' = "spin"
    /\ UNCHANGED <<tp_pc, c_write_idx, c_read_idx, tp_nonempty, record, popped>>
    /\ UNCHANGED <<ringVars, prodVars, ctrlVars>>
    /\ UNCHANGED <<clockVars, recVars, raceVars, obsVars>>

\* variant of the spin iteration that does not look at the running flag
Loop_SpinNoStopCheck ==
    /\ c_pc = "spin"
    /\ IF spin_i < SpinCount
       THEN /\ c_pc' = "spin_pop"
            /\ tp_pc' = "load_w"
            /\ UNCHANGED spin_i
       ELSE /\ c_pc' = "after_spin"
            /\ spin_i' = 0
            /\ UNCHANGED tp_pc
    /\ UNCHANGED <<c_write_idx, c_read_idx, tp_nonempty, record, found_activity, popped>>
    /\ UNCHANGED <<ringVars, prodVars, ctrlVars, sinkVars>>
    /\ UNCHANGED <<clockVars, recVars, raceVars, obsVars>>

\* one spin iteration up to its TryPop: i < SPIN_COUNT, cpu relax, stop check
Loop_Spin ==
    /\ c_pc = "spin"
    /\ IF spin_i < SpinCount
       THEN IF ~is_running
            THEN /\ c_pc' = "shutdown"
                 /\ spin_i' = 0
                 /\ UNCHANGED tp_pc
            ELSE /\ c_pc' = "spin_pop"
                 /\ tp_pc' = "load_w"
                 /\ UNCHANGED spin_i
       ELSE /\ c_pc' = "after_spin"
            /\ spin_i' = 0
            /\ UNCHANGED tp_pc
    /\ UNCHANGED <<c_write_idx, c_read_idx, tp_nonempty, record, found_activity, popped>>
    /\ UNCHANGED <<ringVars, prodVars, ctrlVars, sinkVars>>
    /\ UNCHANGED <<clockVars, recVars, raceVars, obsVars>>

\* variant of the code after the spin loop that forgets the record popped while spinning
Loop_AfterSpinNoWrite ==
    /\ c_pc = "after_spin"
    /\ c_pc' = IF found_activity \/ ~is_running THEN "while" ELSE "sleep"
    /\ found_activity' = FALSE
    /\ UNCHANGED <<tp_pc, c_write_idx, c_read_idx, tp_nonempty, record, spin_i, popped>>
    /\ UNCHANGED <<ringVars, prodVars, ctrlVars, sinkVars>>
    /\ UNCHANGED <<clockVars, recVars, raceVars, obsVars>>

\* variant of the code after the spin loop that looks at the running flag
\* before it handles the record popped while spinning
Loop_AfterSpinStopFirst ==
    /\ c_pc = "after_spin"
    /\ IF ~is_running
       THEN /\ c_pc' = "shutdown"
            /\ UNCHANGED sinkVars
       ELSE IF found_activity
            THEN /\ SinkWrite(FormatRecord(record))
                 /\ c_pc' = "while"
            ELSE /\ c_pc' = "sleep"
                 /\ UNCHANGED sinkVars
    /\ found_activity' = FALSE
    /\ UNCHANGED <<tp_pc, c_write_idx, c_read_idx, tp_nonempty, record, spin_i, popped>>
    /\ UNCHANGED <<ringVars, prodVars, ctrlVars>>
    /\ UNCHANGED <<clockVars, recVars, raceVars, obsVars>>

\* variant of the code after the spin loop that sleeps without looking at
\* the running flag again
Loop_AfterSpinSleepsAlways ==
    /\ c_pc = "after_spin"
    /\ IF found_activity
       THEN /\ SinkWrite(FormatRecord(record))
            /\ c_pc' = "while"
       ELSE /\ c_pc' = "sleep"
            /\ UNCHANGED sinkVars
    /\ found_activity' = FALSE
    /\ UNCHANGED <<tp_pc, c_write_idx, c_read_idx, tp_nonempty, record, spin_i, popped>>
    /\ UNCHANGED <<ringVars, prodVars, ctrlVars>>
    /\ UNCHANGED <<clockVars, recVars, raceVars, obsVars>>

\* after the spin loop: write the record found, or check the flag before sleeping
Loop_AfterSpin ==
    /\ c_pc = "after_spin"
    /\ IF found_activity
       THEN /\ SinkWrite(FormatRecord(record))
            /\ c_pc' = "while"
       ELSE /\ c_pc' = IF is_running THEN "sleep" ELSE "while"
            /\ UNCHANGED sinkVars
    /\ found_activity' = FALSE
    /\ UNCHANGED <<tp_pc, c_write_idx, c_read_idx, tp_nonempty, record, spin_i, popped>>
    /\ UNCHANGED <<ringVars, prodVars, ctrlVars>>
    /\ UNCHANGED <<clockVars, recVars, raceVars, obsVars>>

\* variant of the sleep that ends only once the consumer is stopped
Loop_SleepUntilStopped ==
    /\ c_pc = "sleep"
    /\ ~is_running
    /\ c_pc' = "while"
    /\ UNCHANGED <<tp_pc, c_write_idx, c_read_idx, tp_nonempty, record, spin_i, found_activity, popped>>
    /\ UNCHANGED <<ringVars, prodVars, ctrlVars, sinkVars>>
    /\ UNCHANGED <<clockVars, recVars, raceVars, obsVars>>

\* std::this_thread::sleep_for returns
Loop_Sleep ==
    /\ c_pc = "sleep"
    /\ c_pc' = "while"
    /\ UNCHANGED <<tp_pc, c_write_idx, c_read_idx, tp_nonempty, record, spin_i, found_activity, popped>>
    /\ UNCHANGED <<ringVars, prodVars, ctrlVars, sinkVars>>
    /\ UNCHANGED <<clockVars, recVars, raceVars, obsVars>>

\* variant of the shutdown label that returns without the final flush
Loop_ShutdownNoFlush ==
    /\ c_pc = "shutdown"
    /\ c_pc' = "exited"
    /\ UNCHANGED <<tp_pc, c_write_idx, c_read_idx, tp_nonempty, record, spin_i, found_activity, popped>>
    /\ UNCHANGED <<ringVars, prodVars, ctrlVars, sinkVars>>
    /\ UNCHANGED <<clockVars, recVars, raceVars, obsVars>>

\* shutdown: final sink_.Flush(), the thread function returns
Loop_Shutdown ==
    /\ c_pc = "shutdown"
    /\ SinkFlush
    /\ c_pc' = "exited"
    /\ UNCHANGED <<tp_pc, c_write_idx, c_read_idx, tp_nonempty, record, spin_i, found_activity, popped>>
    /\ UNCHANGED <<ringVars, prodVars, ctrlVars>>
    /\ UNCHANGED <<clockVars, recVars, raceVars, obsVars>>

Worker ==
    \/ TryPop_LoadWrite
    \/ TryPop_LoadRead
    \/ TryPop_Check
    \/ TryPop_Move
    \/ TryPop_Destroy
    \/ TryPop_Publish
    \/ Loop_While
    \/ Loop_FastWrite
    \/ Loop_Flush
    \/ Loop_Spin
    \/ Loop_AfterSpin
    \/ Loop_Sleep
    \/ Loop_Shutdown

(* ---------------- Consumer::Start / Stop (consumer.h) ------------------ *)

\* the controller calls Start()
Start_Call ==
    /\ m_pc = "idle"
    /\ destroying = "no"
    /\ m_pc' = "start_cas"
    /\ joins_in_run' = 0
    /\ UNCHANGED <<is_running, thread_, stop_mark, destroying, spawns_in_run, started_in_run>>
    /\ UNCHANGED <<ringVars, prodVars, consVars, sinkVars>>
    /\ UNCHANGED <<clockVars, recVars, raceVars, obsVars>>

\* variant of Start that spawns without looking at the flag
Start_NoCAS ==
    /\ m_pc = "start_cas"
    /\ is_running' = TRUE
    /\ m_pc' = "start_spawn"
    /\ UNCHANGED <<thread_, stop_mark, destroying, spawns_in_run, joins_in_run, started_in_run>>
    /\ UNCHANGED <<ringVars, prodVars, consVars, sinkVars>>
    /\ UNCHANGED <<clockVars, recVars, raceVars, obsVars>>

\* Start: is_running_.compare_exchange_strong(false, true)
Start_CAS ==
    /\ m_pc = "start_cas"
    /\ IF is_running = FALSE
       THEN /\ is_running' = TRUE
            /\ m_pc' = "start_spawn"
       ELSE /\ m_pc' = "idle"
            /\ UNCHANGED is_running
    /\ started_in_run' = (started_in_run \/ is_running)
    /\ UNCHANGED <<thread_, stop_mark, destroying, spawns_in_run, joins_in_run>>
    /\ UNCHANGED <<ringVars, prodVars, consVars, sinkVars>>
    /\ UNCHANGED <<clockVars, recVars, raceVars, obsVars>>

\* variant of Start whose new worker begins at the current end of the ring
Start_SpawnResetsRing ==
    /\ m_pc = "start_spawn"
    /\ thread_' = "joinable"
    /\ c_pc' = "while"
    /\ record' = NoRecord
    /\ m_pc' = "idle"
    /\ spawns_in_run' = spawns_in_run + 1
    /\ started_in_run' = TRUE
    /\ read_index' = write_index
    /\ UNCHANGED <<is_running, stop_mark, destroying, joins_in_run>>
    /\ UNCHANGED <<tp_pc, c_write_idx, c_read_idx, tp_nonempty, spin_i, found_activity, popped>>
    /\ UNCHANGED <<write_index, storage, prodVars, sinkVars>>
    /\ UNCHANGED <<clockVars, recVars, raceVars, obsVars>>

\* Start: thread_ = std::thread(&Consumer::Loop, this)
Start_Spawn ==
    /\ m_pc = "start_spawn"
    /\ thread_' = "joinable"
    /\ c_pc' = "while"
    /\ record' = NoRecord
    /\ m_pc' = "idle"
    /\ spawns_in_run' = spawns_in_run + 1
    /\ started_in_run' = TRUE
    /\ UNCHANGED <<is_running, stop_mark, destroying, joins_in_run>>
    /\ UNCHANGED <<tp_pc, c_write_idx, c_read_idx, tp_nonempty, spin_i, found_activity, popped>>
    /\ UNCHANGED <<ringVars, prodVars, sinkVars>>
    /\ UNCHANGED <<clockVars, recVars, raceVars, obsVars>>

\* where a returning Stop() continues: in the caller, or inside ~Logger,
\* whose body calls Stop() and whose member destruction runs ~Consumer,
\* which calls Stop() again, before the ring buffer is destroyed
StopReturnsTo(d) ==
    CASE d = "no" -> "idle"
      [] d = "logger" -> "stop_cas"
      [] d = "consumer" -> "destroyed"

StopLeaves(d) == IF d = "logger" THEN "consumer" ELSE d

\* the controller calls Stop()
Stop_Call ==
    /\ m_pc = "idle"
    /\ destroying = "no"
    /\ m_pc' = "stop_cas"
    /\ stop_mark' = Len(pushed)
    /\ spawns_in_run' = 0
    /\ started_in_run' = FALSE
    /\ UNCHANGED <<is_running, thread_, destroying, joins_in_run>>
    /\ UNCHANGED <<ringVars, prodVars, consVars, sinkVars>>
    /\ UNCHANGED <<clockVars, recVars, raceVars, obsVars>>

\* Stop: is_running_.compare_exchange_strong(true, false)
Stop_CAS ==
    /\ m_pc = "stop_cas"
    /\ IF is_running = TRUE
       THEN /\ is_running' = FALSE
            /\ m_pc' = "stop_join"
            /\ UNCHANGED destroying
       ELSE /\ m_pc' = StopReturnsTo(destroying)
            /\ destroying' = StopLeaves(destroying)
            /\ UNCHANGED is_running
    /\ UNCHANGED <<thread_, stop_mark, spawns_in_run, joins_in_run, started_in_run>>
    /\ UNCHANGED <<ringVars, prodVars, consVars, sinkVars>>
    /\ UNCHANGED <<clockVars, recVars, raceVars, obsVars>>

\* variant of Stop that returns without joining the worker
Stop_JoinSkipped ==
    /\ m_pc = "stop_join"
    /\ m_pc' = "stop_done"
    /\ UNCHANGED <<is_running, thread_, stop_mark, destroying, spawns_in_run,
                   joins_in_run, started_in_run>>
    /\ UNCHANGED <<ringVars, prodVars, consVars, sinkVars>>
    /\ UNCHANGED <<clockVars, recVars, raceVars, obsVars>>

\* Stop: if (thread_.joinable()) thread_.join(); join waits for Loop to return
Stop_Join ==
    /\ m_pc = "stop_join"
    /\ IF thread_ = "joinable"
       THEN /\ c_pc = "exited"
            /\ thread_' = "none"
            /\ c_pc' = "none"
            /\ joins_in_run' = joins_in_run + 1
       ELSE UNCHANGED <<thread_, c_pc, joins_in_run>>
    /\ m_pc' = "stop_done"
    /\ UNCHANGED <<is_running, stop_mark, destroying, spawns_in_run, started_in_run>>
    /\ UNCHANGED <<tp_pc, c_write_idx, c_read_idx, tp_nonempty, record, spin_i, found_activity, popped>>
    /\ UNCHANGED <<ringVars, prodVars, sinkVars>>
    /\ UNCHANGED <<clockVars, recVars, raceVars, obsVars>>

\* Stop() returns to the controller after having stopped the worker
Stop_Return ==
    /\ m_pc = "stop_done"
    /\ m_pc' = StopReturnsTo(destroying)
    /\ destroying' = StopLeaves(destroying)
    /\ UNCHANGED <<is_running, thread_, stop_mark, spawns_in_run, joins_in_run, started_in_run>>
    /\ UNCHANGED <<ringVars, prodVars, consVars, sinkVars>>
    /\ UNCHANGED <<clockVars, recVars, raceVars, obsVars>>

\* variant of the destruction that destroys the members without any Stop()
Destroy_CallNoStop ==
    /\ m_pc = "idle"
    /\ destroying = "no"
    /\ p_pc = "idle"
    /\ destroying' = "consumer"
    /\ m_pc' = "destroyed"
    /\ stop_mark' = Len(pushed)
    /\ spawns_in_run' = 0
    /\ started_in_run' = FALSE
    /\ UNCHANGED <<is_running, thread_, joins_in_run>>
    /\ UNCHANGED <<ringVars, prodVars, consVars, sinkVars>>
    /\ UNCHANGED <<clockVars, recVars, raceVars, obsVars>>

\* the controller destroys the Logger, no Log call being in progress:
\* ~Logger calls Stop()
Destroy_Call ==
    /\ m_pc = "idle"
    /\ destroying = "no"
    /\ p_pc = "idle"
    /\ destroying' = "logger"
    /\ m_pc' = "stop_cas"
    /\ stop_mark' = Len(pushed)
    /\ spawns_in_run' = 0
    /\ started_in_run' = FALSE
    /\ UNCHANGED <<is_running, thread_, joins_in_run>>
    /\ UNCHANGED <<ringVars, prodVars, consVars, sinkVars>>
    /\ UNCHANGED <<clockVars, recVars, raceVars, obsVars>>

Controller ==
    \/ Start_Call
    \/ Start_CAS
    \/ Start_Spawn
    \/ Stop_Call
    \/ Stop_CAS
    \/ Stop_Join
    \/ Stop_Return
    \/ Destroy_Call

(* ------- Start / Stop called by a second thread (consumer.h) ----------- *)

\* the second thread calls Start()
Start2_Call ==
    /\ m2_pc = "idle"
    /\ m2_pc' = "start_cas"
    /\ joins_in_run' = 0
    /\ UNCHANGED <<is_running, thread_, m_pc, stop_mark, destroying, spawns_in_run, started_in_run>>
    /\ UNCHANGED <<ringVars, prodVars, consVars, sinkVars>>
    /\ UNCHANGED <<clockVars, recVars, obsVars>>

\* Start: is_running_.compare_exchange_strong(false, true)
Start2_CAS ==
    /\ m2_pc = "start_cas"
    /\ IF is_running = FALSE
       THEN /\ is_running' = TRUE
            /\ m2_pc' = "start_spawn"
       ELSE /\ m2_pc' = "idle"
            /\ UNCHANGED is_running
    /\ started_in_run' = (started_in_run \/ is_running)
    /\ UNCHANGED <<thread_, m_pc, stop_mark, destroying, spawns_in_run, joins_in_run>>
    /\ UNCHANGED <<ringVars, prodVars, consVars, sinkVars>>
    /\ UNCHANGED <<clockVars, recVars, obsVars>>

\* Start: thread_ = std::thread(&Consumer::Loop, this). The move assignment
\* to a thread_ that is still joinable calls std::terminate(), which ends
\* every thread of the process; the worker the temporary started runs beside
\* the earlier one until then.
Start2_Spawn ==
    /\ m2_pc = "start_spawn"
    /\ IF thread_ = "none"
       THEN /\ thread_' = "joinable"
            /\ c_pc' = "while"
            /\ record' = NoRecord
            /\ m2_pc' = "idle"
            /\ UNCHANGED <<tp_pc, m_pc, p_pc>>
       ELSE /\ thread_' = "terminated"
            /\ c_pc' = "terminated"
            /\ tp_pc' = "none"
            /\ m_pc' = "terminated"
            /\ m2_pc' = "terminated"
            /\ p_pc' = "terminated"
            /\ UNCHANGED record
    /\ spawns_in_run' = spawns_in_run + 1
    /\ started_in_run' = TRUE
    /\ UNCHANGED <<is_running, stop_mark, destroying, joins_in_run>>
    /\ UNCHANGED <<c_write_idx, c_read_idx, tp_nonempty, spin_i, found_activity, popped>>
    /\ UNCHANGED <<p_write_idx, p_read_idx, p_record, log_message, log_call, log_result,
                   next_msg, try_push_calls, dropped_count, pushed>>
    /\ UNCHANGED <<ringVars, sinkVars>>
    /\ UNCHANGED <<clockVars, recVars, obsVars>>

\* the second thread calls Stop()
Stop2_Call ==
    /\ m2_pc = "idle"
    /\ m2_pc' = "stop_cas"
    /\ stop_mark' = Len(pushed)
    /\ spawns_in_run' = 0
    /\ started_in_run' = FALSE
    /\ UNCHANGED <<is_running, thread_, m_pc, destroying, joins_in_run>>
    /\ UNCHANGED <<ringVars, prodVars, consVars, sinkVars>>
    /\ UNCHANGED <<clockVars, recVars, obsVars>>

\* Stop: is_running_.compare_exchange_strong(true, false); a Stop that finds
\* the flag cleared returns at once
Stop2_CAS ==
    /\ m2_pc = "stop_cas"
    /\ IF is_running = TRUE
       THEN /\ is_running' = FALSE
            /\ m2_pc' = "stop_join"
       ELSE /\ m2_pc' = "idle"
            /\ UNCHANGED is_running
    /\ UNCHANGED <<thread_, m_pc, stop_mark, destroying, spawns_in_run, joins_in_run, started_in_run>>
    /\ UNCHANGED <<ringVars, prodVars, consVars, sinkVars>>
    /\ UNCHANGED <<clockVars, recVars, obsVars>>

\* Stop: if (thread_.joinable()) thread_.join()
Stop2_Join ==
    /\ m2_pc = "stop_join"
    /\ IF thread_ = "joinable"
       THEN /\ c_pc = "exited"
            /\ thread_' = "none"
            /\ c_pc' = "none"
            /\ joins_in_run' = joins_in_run + 1
       ELSE UNCHANGED <<thread_, c_pc, joins_in_run>>
    /\ m2_pc' = "stop_done"
    /\ UNCHANGED <<is_running, m_pc, stop_mark, destroying, spawns_in_run, started_in_run>>
    /\ UNCHANGED <<tp_pc, c_write_idx, c_read_idx, tp_nonempty, record, spin_i, found_activity, popped>>
    /\ UNCHANGED <<ringVars, prodVars, sinkVars>>
    /\ UNCHANGED <<clockVars, recVars, obsVars>>

\* Stop() returns to the second thread after the join
Stop2_Return ==
    /\ m2_pc = "stop_done"
    /\ m2_pc' = "idle"
    /\ UNCHANGED ctrlVars
    /\ UNCHANGED <<ringVars, prodVars, consVars, sinkVars>>
    /\ UNCHANGED <<clockVars, recVars, obsVars>>

SecondThread ==
    \/ Start2_Call
    \/ Start2_CAS
    \/ Start2_Spawn
    \/ Stop2_Call
    \/ Stop2_CAS
    \/ Stop2_Join
    \/ Stop2_Return

(* ------------------------ LogRecord (record.h) ------------------------- *)

\* LOGGER_MAX_MESSAGE_SIZE
MaxMessageSize == 1024

\* a const char * argument: the null pointer, or a pointer to bytes
NullPtr == [null |-> TRUE, bytes |-> <<>>]

Ptr(bytes) == [null |-> FALSE, bytes |-> bytes]

\* a text of n letters that change from one position to the next
Text(seed, n) == [i \in 1 .. n |-> 97 + ((i + seed) % 3)]

Seeds == {0, 1}

\* lengths of the texts handed to a record: empty, short, around the capacity
TextLens == {0, 1, MaxMessageSize - 1, MaxMessageSize, MaxMessageSize + 1}

\* std::strlen: the number of bytes before the first NUL
Strlen(bytes) ==
    LET z == {i \in 1 .. Len(bytes) : bytes[i] = 0}
    IN  IF z = {} THEN Len(bytes) ELSE (CHOOSE i \in z : \A j \in z : i <= j) - 1

\* std::memcpy(dst, src, len) into an array indexed from 0
Memcpy(dst, src, len) == [i \in DOMAIN dst |-> IF i < len THEN src[i + 1] ELSE dst[i]]

\* dst[at] = b; a store past the end of the array does not land in it
StoreByte(dst, at, b) == IF at \in DOMAIN dst THEN [dst EXCEPT ![at] = b] ELSE dst

\* variant of the truncation that lets a text of MaxMessageSize bytes through
ClampLenLate(len) == IF len > MaxMessageSize THEN MaxMessageSize ELSE len

\* if (len >= LOGGER_MAX_MESSAGE_SIZE) len = LOGGER_MAX_MESSAGE_SIZE - 1
ClampLen(len) == IF len >= MaxMessageSize THEN MaxMessageSize - 1 ELSE len

\* message[0] = 0; message_length = 0; return 0
EmptyMessage(r) ==
    [rec |-> [r EXCEPT !.message = StoreByte(@, 0, 0), !.message_length = 0], ret |-> 0]

\* memcpy(message, msg, len); message[len] = 0; message_length = len; return len
CopyMessage(r, bytes, len) ==
    [rec |-> [r EXCEPT !.message = StoreByte(Memcpy(@, bytes, len), len, 0),
                       !.message_length = len],
     ret |-> len]

\* LogRecord::SetMessage(const char *msg)
SetMessage(r, msg) ==
    IF msg.null THEN EmptyMessage(r)
    ELSE CopyMessage(r, msg.bytes, ClampLen(Strlen(msg.bytes)))

\* LogRecord::SetMessage(const char *msg, std::size_t len)
SetMessageLen(r, msg, len) ==
    IF msg.null \/ len = 0 THEN EmptyMessage(r)
    ELSE CopyMessage(r, msg.bytes, ClampLen(len))

\* decimal digits of a non-negative number
RECURSIVE Decimal(_)
Decimal(n) == IF n < 10 THEN <<48 + n>> ELSE Decimal(n \div 10) \o <<48 + (n % 10)>>

\* the conversion %d (and %llu for non-negative values)
FormatD(n) == IF n < 0 THEN <<45>> \o Decimal(0 - n) ELSE Decimal(n)

\* the text printf renders for fmt with one integer argument: the first %d
\* of fmt is replaced by the digits of arg
Render(fmt, arg) ==
    LET d == {i \in 1 .. Len(fmt) - 1 : fmt[i] = 37 /\ fmt[i + 1] = 100}
    IN  IF d = {} THEN fmt
        ELSE LET k == CHOOSE i \in d : \A j \in d : i <= j
             IN  SubSeq(fmt, 1, k - 1) \o FormatD(arg) \o SubSeq(fmt, k + 2, Len(fmt))

\* std::snprintf(buffer, size, ...) of a rendered text: at most size - 1 bytes
\* and a NUL are stored, the full length is returned
Snprintf(buffer, size, text) ==
    LET stored == Min(Len(text), size - 1)
    IN  [buffer |-> StoreByte(Memcpy(buffer, text, stored), stored, 0), result |-> Len(text)]

\* variant of FormatMessage's length that keeps snprintf's result as it is
FormatNoClamp(result) == result

\* message_length = result < LOGGER_MAX_MESSAGE_SIZE ? result : LOGGER_MAX_MESSAGE_SIZE - 1
FormatClamp(result) == IF result < MaxMessageSize THEN result ELSE MaxMessageSize - 1

\* LogRecord::FormatMessage(fmt, args...); ok is FALSE when snprintf reports
\* an error (result < 0)
FormatMessage(r, fmt, arg, ok) ==
    IF fmt.null \/ ~ok THEN EmptyMessage(r)
    ELSE LET sn == Snprintf(r.message, MaxMessageSize, Render(fmt.bytes, arg))
         IN  [rec |-> [r EXCEPT !.message = sn.buffer,
                                !.message_length = FormatClamp(sn.result)],
              ret |-> FormatClamp(sn.result)]

\* the rest of the program does not take part in a call on lrec
LoggerUntouched == UNCHANGED <<ringVars, prodVars, ctrlVars, clockVars, consVars, sinkVars, raceVars, obsVars>>

\* lrec.SetMessage(msg)
Record_SetMessage ==
    \E msg \in {NullPtr} \cup {Ptr(Text(seed, n)) : seed \in Seeds, n \in TextLens} :
        LET out == SetMessage(lrec, msg)
        IN  /\ lrec' = out.rec
            /\ rec_ret' = out.ret
            /\ rec_op' = "SetMessage"
            /\ rec_in' = IF msg.null THEN <<>> ELSE SubSeq(msg.bytes, 1, Strlen(msg.bytes))
            /\ UNCHANGED <<scratch_buffer, fr_buffer, fr_capacity>>
            /\ LoggerUntouched

\* lrec.SetMessage(msg, len), len not beyond the bytes msg points to
Record_SetMessageLen ==
    \E seed \in Seeds : \E n \in TextLens : \E len \in {0, 1, n} : \E null \in BOOLEAN :
        /\ len <= n
        /\ null => n = 0
        /\ LET msg == IF null THEN NullPtr ELSE Ptr(Text(seed, n))
               out == SetMessageLen(lrec, msg, len)
           IN  /\ lrec' = out.rec
               /\ rec_ret' = out.ret
               /\ rec_op' = "SetMessageLen"
               /\ rec_in' = IF null THEN <<>> ELSE SubSeq(msg.bytes, 1, len)
        /\ UNCHANGED <<scratch_buffer, fr_buffer, fr_capacity>>
        /\ LoggerUntouched

\* the format strings: null, plain texts, and texts that end in %d
FmtArgs ==
    {NullPtr} \cup {Ptr(Text(seed, n)) : seed \in Seeds, n \in TextLens}
              \cup {Ptr(Text(seed, n) \o <<37, 100>>) :
                        seed \in Seeds, n \in {0, MaxMessageSize - 2, MaxMessageSize}}

IntArgs == {7, 0 - 12345}

\* lrec.FormatMessage(fmt, arg)
Record_FormatMessage ==
    \E fmt \in FmtArgs : \E arg \in IntArgs : \E ok \in BOOLEAN :
        LET out == FormatMessage(lrec, fmt, arg, ok)
        IN  /\ lrec' = out.rec
            /\ rec_ret' = out.ret
            /\ rec_op' = IF fmt.null \/ ok THEN "FormatMessage" ELSE "FormatMessageError"
            /\ rec_in' = IF fmt.null \/ ~ok THEN <<>> ELSE Render(fmt.bytes, arg)
            /\ UNCHANGED <<scratch_buffer, fr_buffer, fr_capacity>>
            /\ LoggerUntouched

\* LogRecord record; the fields of a default-initialized record are indeterminate
UninitializedRecords ==
    {[level |-> "INFO", timestamp |-> 0, thread_id |-> 0,
      file |-> NullPtr, line |-> 0, function |-> NullPtr,
      message |-> [i \in 0 .. MaxMessageSize - 1 |-> garbage],
      message_length |-> len] :
         garbage \in {0, 120}, len \in {0, MaxMessageSize + 7}}

(* ------------- TextFormatter::FormatRecord (formatter.cpp) ------------- *)

\* Loop: kFormattingOverhead
kFormattingOverhead == 256

\* Loop: kScratchBufferSize, the size of scratch_buffer
kScratchBufferSize == MaxMessageSize + kFormattingOverhead

\* the values of Level, and one that is none of them
AllLevels == {"TRACE", "DEBUG", "INFO", "WARN", "ERROR", "FATAL", "OTHER"}

\* LevelToString(level), as bytes
LevelToString(level) ==
    CASE level = "TRACE" -> <<84, 82, 65, 67, 69>>
      [] level = "DEBUG" -> <<68, 69, 66, 85, 71>>
      [] level = "INFO" -> <<73, 78, 70, 79>>
      [] level = "WARN" -> <<87, 65, 82, 78>>
      [] level = "ERROR" -> <<69, 82, 82, 79, 82>>
      [] level = "FATAL" -> <<70, 65, 84, 65, 76>>
      [] OTHER -> <<85, 78, 75, 78, 79, 87, 78>>

\* the conversion %s: the bytes of a C string up to its NUL
FormatS(str) == SubSeq(str.bytes, 1, Strlen(str.bytes))

\* the lambda appendf applied to a rendered text; buf is buffer[0 .. pos - 1].
\* A text that does not fit is cut and pos is set to capacity - 1.
Appendf(buf, capacity, text) ==
    IF Len(buf) >= capacity THEN buf
    ELSE IF Len(text) >= capacity - Len(buf)
         THEN buf \o SubSeq(text, 1, capacity - 1 - Len(buf))
         ELSE buf \o text

\* if (pos < capacity - 1) buffer[pos++] = c
AppendChar(buf, capacity, c) == IF Len(buf) < capacity - 1 THEN Append(buf, c) ELSE buf

\* the copy of the message, cut to the room left before the last byte
AppendMessage(buf, capacity, r) ==
    IF r.message_length > 0 /\ Len(buf) < capacity - 1
    THEN buf \o [i \in 1 .. Min(r.message_length, capacity - 1 - Len(buf)) |-> r.message[i - 1]]
    ELSE buf

\* TextFormatter::FormatRecord(record, buffer, capacity): the bytes left in
\* buffer before the final NUL; their number is the value returned
TextFormatter_FormatRecord(r, capacity) ==
    IF capacity = 0 THEN <<>>
    ELSE LET head == Appendf(<<>>, capacity,
                         <<91>> \o FormatD(r.timestamp) \o <<93, 32, 91>>
                                \o LevelToString(r.level) \o <<93>>)
             tid == Appendf(head, capacity,
                        <<32, 91, 116, 105, 100, 61>> \o FormatD(r.thread_id) \o <<93>>)
             loc == IF ~r.file.null /\ ~r.function.null
                    THEN Appendf(tid, capacity,
                             <<32>> \o FormatS(r.file) \o <<58>> \o FormatD(r.line)
                                    \o <<32>> \o FormatS(r.function))
                    ELSE tid
             sep == AppendChar(loc, capacity, 32)
             msg == AppendMessage(sep, capacity, r)
         IN  AppendChar(msg, capacity, 10)

(* ---- TextFormatter::FormatRecord, store by store (formatter.cpp) ------ *)

\* largest of the small capacities tried
MaxCapacity == 24

\* a caller's buffer of c bytes, nothing stored yet
FreshBuffer(c) == [null |-> FALSE, mem |-> [i \in 0 .. c - 1 |-> 255], stored |-> {}]

\* the stores buffer[at], buffer[at + 1], ...: one per byte, inside the
\* caller's memory or past its end
StoreBytes(b, at, bytes) ==
    [null |-> FALSE,
     mem |-> [i \in DOMAIN b.mem |->
                IF i \in at .. at + Len(bytes) - 1 THEN bytes[i - at + 1] ELSE b.mem[i]],
     stored |-> b.stored \cup (at .. at + Len(bytes) - 1)]

\* variant of appendf that, on a text that does not fit, continues at capacity
AppendfPastEnd(st, capacity, text) ==
    IF st.pos >= capacity THEN st
    ELSE LET n == capacity - st.pos
             out == StoreBytes(st.buf, st.pos,
                               SubSeq(text, 1, Min(Len(text), n - 1)) \o <<0>>)
         IN  IF Len(text) >= n
             THEN [buf |-> StoreBytes(out, capacity, <<0>>), pos |-> capacity]
             ELSE [buf |-> out, pos |-> st.pos + Len(text)]

\* the lambda appendf: vsnprintf(buffer + pos, capacity - pos, ...) stores
\* what fits of the text in capacity - pos - 1 bytes and a NUL after it, and
\* returns the length of the whole text
AppendfStore(st, capacity, text) ==
    IF st.pos >= capacity THEN st
    ELSE LET n == capacity - st.pos
             out == StoreBytes(st.buf, st.pos,
                               SubSeq(text, 1, Min(Len(text), n - 1)) \o <<0>>)
         IN  IF Len(text) >= n
             THEN [buf |-> StoreBytes(out, capacity - 1, <<0>>), pos |-> capacity - 1]
             ELSE [buf |-> out, pos |-> st.pos + Len(text)]

\* if (pos < capacity - 1) buffer[pos++] = c
StoreChar(st, capacity, c) ==
    IF st.pos < capacity - 1
    THEN [buf |-> StoreBytes(st.buf, st.pos, <<c>>), pos |-> st.pos + 1]
    ELSE st

\* the memcpy of the message, cut to capacity - 1 - pos bytes
MemcpyMessage(st, capacity, r) ==
    IF r.message_length > 0 /\ st.pos < capacity - 1
    THEN LET msg_len == Min(r.message_length, capacity - 1 - st.pos)
         IN  [buf |-> StoreBytes(st.buf, st.pos, [i \in 1 .. msg_len |-> r.message[i - 1]]),
              pos |-> st.pos + msg_len]
    ELSE st

\* TextFormatter::FormatRecord(record, buffer, capacity): the memory behind
\* buffer after the call, and pos, the value returned
FormatRecordInto(r, buffer, capacity) ==
    IF buffer.null \/ capacity = 0 THEN [buf |-> buffer, pos |-> 0]
    ELSE LET head == AppendfStore([buf |-> buffer, pos |-> 0], capacity,
                         <<91>> \o FormatD(r.timestamp) \o <<93, 32, 91>>
                                \o LevelToString(r.level) \o <<93>>)
             tid == AppendfStore(head, capacity,
                        <<32, 91, 116, 105, 100, 61>> \o FormatD(r.thread_id) \o <<93>>)
             loc == IF ~r.file.null /\ ~r.function.null
                    THEN AppendfStore(tid, capacity,
                             <<32>> \o FormatS(r.file) \o <<58>> \o FormatD(r.line)
                                    \o <<32>> \o FormatS(r.function))
                    ELSE tid
             sep == StoreChar(loc, capacity, 32)
             msg == MemcpyMessage(sep, capacity, r)
             nl == StoreChar(msg, capacity, 10)
         IN  [buf |-> StoreBytes(nl.buf, nl.pos, <<0>>), pos |-> nl.pos]

\* LogRecord::SetSourceLocation(file_name, line_number, func_name)
SetSourceLocation(r, file_name, line_number, func_name) ==
    [r EXCEPT !.file = file_name, !.line = line_number, !.function = func_name]

\* source locations: none, a short one, and one with long file and function names
SourceLocations ==
    {[file |-> NullPtr, line |-> 0, function |-> NullPtr],
     [file |-> Ptr(Text(0, 6)), line |-> 7, function |-> Ptr(Text(1, 4))],
     [file |-> Ptr(Text(0, 150)), line |-> 123456, function |-> Ptr(Text(1, 60))]}

\* values of the 64-bit fields: small ones and the largest the checker can hold
WordValues == {0, 1, 2147483647}

\* records as the producer pushes them: PrepareRecord, SetMessage with a text
\* that fits, SetSourceLocation
PreparedRecords ==
    {SetSourceLocation(
         SetMessage([level |-> level, timestamp |-> ts, thread_id |-> tid,
                     file |-> NullPtr, line |-> 0, function |-> NullPtr,
                     message |-> [i \in 0 .. MaxMessageSize - 1 |-> 0],
                     message_length |-> 0],
                    Ptr(Text(0, n))).rec,
         loc.file, loc.line, loc.function) :
       level \in AllLevels, ts \in WordValues, tid \in WordValues,
       n \in {0, 1, MaxMessageSize - 1}, loc \in SourceLocations}

\* Loop: len = formatter_.FormatRecord(record, scratch_buffer, sizeof(scratch_buffer))
Loop_FormatRecord ==
    /\ rec_op = "popped"
    /\ scratch_buffer' = TextFormatter_FormatRecord(lrec, kScratchBufferSize)
    /\ rec_ret' = Len(scratch_buffer')
    /\ rec_op' = "FormatRecord"
    /\ UNCHANGED <<lrec, rec_in, fr_buffer, fr_capacity>>
    /\ LoggerUntouched

\* a caller of formatter.FormatRecord(record, buffer, capacity)
TextFormatter_Call ==
    /\ rec_op = "popped"
    /\ fr_buffer' = FormatRecordInto(lrec, fr_buffer, fr_capacity).buf
    /\ rec_ret' = FormatRecordInto(lrec, fr_buffer, fr_capacity).pos
    /\ rec_op' = "FormatRecord"
    /\ UNCHANGED <<lrec, rec_in, scratch_buffer, fr_capacity>>
    /\ LoggerUntouched

\* Loop: sink_.Write(scratch_buffer, len)
Loop_SinkWrite ==
    /\ rec_op = "FormatRecord"
    /\ sink_writes' = Append(sink_writes, SubSeq(scratch_buffer, 1, rec_ret))
    /\ sink_last' = "write"
    /\ FileSink_Write
    /\ UNCHANGED <<file_, io_error>>
    /\ rec_op' = "Write"
    /\ UNCHANGED <<lrec, rec_in, rec_ret, scratch_buffer, fr_buffer, fr_capacity>>
    /\ UNCHANGED <<ringVars, prodVars, ctrlVars, clockVars, consVars, raceVars, obsVars>>

(* ------------------------------- specs --------------------------------- *)

Next == Producer \/ Worker \/ Controller

Spec == Init /\ [][Next]_vars

\* value of both indices after WrapStart elements went through the ring
WrapStart == IndexMod - 2

\* the logger as constructed, with a ring whose indices are two steps from
\* the wrap; histories and counters restart from this point
WrapInit ==
    /\ write_index = WrapStart
    /\ read_index = WrapStart
    /\ storage = [s \in Slots |-> NoRecord]
    /\ p_pc = "idle"
    /\ p_write_idx = 0
    /\ p_read_idx = 0
    /\ p_record = NoRecord
    /\ log_message = NullMsg
    /\ log_call = "None"
    /\ log_result = "None"
    /\ next_msg = 0
    /\ try_push_calls = 0
    /\ dropped_count = 0
    /\ pushed = <<>>
    /\ popped = <<>>
    /\ is_running = FALSE
    /\ thread_ = "none"
    /\ m_pc = "idle"
    /\ stop_mark = 0
    /\ ProbesIdle
    /\ destroying = "no"
    /\ spawns_in_run = 0
    /\ joins_in_run = 0
    /\ started_in_run = FALSE
    /\ tsc = 0
    /\ ClockIdle
    /\ c_pc = "none"
    /\ tp_pc = "none"
    /\ c_write_idx = 0
    /\ c_read_idx = 0
    /\ tp_nonempty = FALSE
    /\ record = NoRecord
    /\ spin_i = 0
    /\ found_activity = FALSE
    /\ sink_writes = <<>>
    /\ sink_last = "none"
    /\ SinkHealthy
    /\ UnitIdle

WrapSpec == WrapInit /\ [][Next]_vars

\* PushRecord and TryPush, entered from any of the logging entry points
PushSteps ==
    \/ TryPush_LoadWrite
    \/ TryPush_LoadRead
    \/ TryPush_Check
    \/ TryPush_Construct
    \/ TryPush_Publish
    \/ PushRecord_Full

\* the steps of Loop while is_running_ stays set
RunningWorker ==
    \/ TryPop_LoadWrite
    \/ TryPop_LoadRead
    \/ TryPop_Check
    \/ TryPop_Move
    \/ TryPop_Destroy
    \/ TryPop_Publish
    \/ Loop_While
    \/ Loop_FastWrite
    \/ Loop_Flush
    \/ Loop_Spin
    \/ Loop_AfterSpin
    \/ Loop_Sleep

\* Start() calls with no Stop() and no destruction
StartOnly == Start_Call \/ Start_CAS \/ Start_Spawn

\* a producer that logs through LogFormat only, with the consumer started
\* and left running
FormatNext == LogFormat \/ PushSteps \/ RunningWorker \/ StartOnly

FormatSpec == Init /\ [][FormatNext]_vars

\* the logger right after construction and one Start(): flag set, worker
\* spawned and about to enter Loop
RunningState ==
    /\ write_index = 0
    /\ read_index = 0
    /\ storage = [s \in Slots |-> NoRecord]
    /\ p_pc = "idle"
    /\ p_write_idx = 0
    /\ p_read_idx = 0
    /\ p_record = NoRecord
    /\ log_message = NullMsg
    /\ log_call = "None"
    /\ log_result = "None"
    /\ next_msg = 0
    /\ try_push_calls = 0
    /\ dropped_count = 0
    /\ pushed = <<>>
    /\ popped = <<>>
    /\ is_running = TRUE
    /\ thread_ = "joinable"
    /\ m_pc = "idle"
    /\ stop_mark = 0
    /\ ProbesIdle
    /\ destroying = "no"
    /\ spawns_in_run = 1
    /\ joins_in_run = 0
    /\ started_in_run = TRUE
    /\ tsc = 0
    /\ ClockIdle
    /\ c_pc = "while"
    /\ tp_pc = "none"
    /\ c_write_idx = 0
    /\ c_read_idx = 0
    /\ tp_nonempty = FALSE
    /\ record = NoRecord
    /\ spin_i = 0
    /\ found_activity = FALSE
    /\ sink_writes = <<>>
    /\ sink_last = "none"
    /\ UnitIdle

\* the started logger over a sink that works
RunningInit == RunningState /\ SinkHealthy

\* the started logger over a FileSink: its fopen may have failed, which the
\* constructor reported, and the device may fail any fwrite or fflush
FailingSinkInit ==
    /\ RunningState
    /\ file_ \in {"open", "null"}
    /\ io_error \in BOOLEAN
    /\ last_error = IF file_ = "null" THEN "FileOpenFailed" ELSE "None"

\* Stop() calls on the started consumer, with no later Start()
StopOnly == Stop_Call \/ Stop_CAS \/ Stop_Join \/ Stop_Return

\* a producer that logs while the started consumer runs and is stopped
StopNext == Log \/ PushSteps \/ Worker \/ StopOnly

StopSpec == RunningInit /\ [][StopNext]_vars

\* the worker thread and the thread inside Stop() are scheduled again and
\* again, and the sleep and the sink calls the worker makes return
StopFairSpec ==
    /\ RunningInit
    /\ [][StopNext]_vars
    /\ WF_vars(Worker)
    /\ WF_vars(Stop_Join \/ Stop_Return)

\* threads that convert tick values while the counter advances and skews
ClockNext == TscTick \/ TscSkew \/ \E t \in CallerThreads : TscToNanoseconds(t)

ClockSpec == Init /\ [][ClockNext]_vars

\* a Log call made while no worker thread exists
LogWhileStopped == thread_ = "none" /\ ~is_running /\ Log

\* a producer that logs only while the consumer is stopped, and a controller
\* that starts and stops it again and again
CycleNext == LogWhileStopped \/ PushSteps \/ Worker \/ StartOnly \/ StopOnly

\* the worker thread, once spawned, is scheduled again and again
CycleSpec == Init /\ [][CycleNext]_vars /\ WF_vars(Worker)

\* a record of its own, as LogImpl / LogFormat declare it, before any call
RecordInit ==
    /\ Constructed
    /\ lrec \in UninitializedRecords
    /\ rec_op = "none"
    /\ rec_in = <<>>
    /\ rec_ret = 0
    /\ scratch_buffer = <<>>
    /\ fr_buffer = NullBuffer
    /\ fr_capacity = 0

RecordNext == Record_SetMessage \/ Record_SetMessageLen \/ Record_FormatMessage

RecordSpec == RecordInit /\ [][RecordNext]_vars

\* the worker holds a record it has popped, as the producer prepared it
FormatterInit ==
    /\ Constructed
    /\ lrec \in PreparedRecords
    /\ rec_op = "popped"
    /\ rec_in = <<>>
    /\ rec_ret = 0
    /\ scratch_buffer = <<>>
    /\ fr_buffer = NullBuffer
    /\ fr_capacity = 0

FormatterNext == Loop_FormatRecord \/ Loop_SinkWrite

\* the values ticks_per_ns can take
Calibrations ==
    {TicksPerNs(c0, c1, ns) : c0 \in 0 .. MaxTick, c1 \in 0 .. MaxTick, ns \in ElapsedNs}

\* the worker holds a record it has popped, and the process has calibrated
\* its tick conversion in an earlier call
CalibratedInit ==
    /\ ConstructedLogger
    /\ calibration \in Calibrations
    /\ guard = "done"
    /\ init_runs = 1
    /\ k_pc = [t \in CallerThreads |-> "idle"]
    /\ k_tsc = [t \in CallerThreads |-> 0]
    /\ k_c0 = [t \in CallerThreads |-> 0]
    /\ conv_log = <<>>
    /\ lrec \in PreparedRecords
    /\ rec_op = "popped"
    /\ rec_in = <<>>
    /\ rec_ret = 0
    /\ scratch_buffer = <<>>
    /\ fr_buffer = NullBuffer
    /\ fr_capacity = 0

CalibratedSpec == CalibratedInit /\ [][FormatterNext]_vars

FormatterSpec == FormatterInit /\ [][FormatterNext]_vars

\* the capacities a caller passes: the small ones, the formatting overhead
\* and the size of the worker's scratch buffer
FormatCapacities == (0 .. MaxCapacity) \cup {kFormattingOverhead, kScratchBufferSize}

\* a caller holds a prepared record and a buffer of some capacity, or a null
\* pointer with some capacity
CapacityInit ==
    /\ Constructed
    /\ lrec \in PreparedRecords
    /\ rec_op = "popped"
    /\ rec_in = <<>>
    /\ rec_ret = 0
    /\ scratch_buffer = <<>>
    /\ fr_capacity \in FormatCapacities
    /\ fr_buffer \in {NullBuffer, FreshBuffer(fr_capacity)}

CapacitySpec == CapacityInit /\ [][TextFormatter_Call]_vars

\* a producer that logs while the consumer stays running
LiveNext == Log \/ PushSteps \/ RunningWorker

\* the worker thread is scheduled again and again, and the sleep and the
\* sink calls it makes return; the producer may stop logging at any point
LiveSpec == RunningInit /\ [][LiveNext]_vars /\ WF_vars(RunningWorker)

\* the same producer and worker over a sink that may fail, under the same
\* scheduling
FailingSinkSpec == FailingSinkInit /\ [][LiveNext]_vars /\ WF_vars(RunningWorker)

(* ---- Size() (ring_buffer.h), called through PendingCount() ------------- *)
(* ---- by a thread that is neither the producer nor the worker ---------- *)

\* const std::size_t w = write_index_.load(relaxed)
Size_LoadWrite ==
    /\ o_pc = "idle"
    /\ o_w' = write_index
    /\ o_pc' = "load_r"
    /\ UNCHANGED size_ret
    /\ UNCHANGED <<ringVars, prodVars, ctrlVars, consVars, sinkVars>>
    /\ UNCHANGED <<clockVars, recVars, raceVars>>

\* const std::size_t r = read_index_.load(relaxed); return w - r
Size_LoadRead ==
    /\ o_pc = "load_r"
    /\ size_ret' = USub(o_w, read_index)
    /\ o_pc' = "idle"
    /\ o_w' = 0
    /\ UNCHANGED <<ringVars, prodVars, ctrlVars, consVars, sinkVars>>
    /\ UNCHANGED <<clockVars, recVars, raceVars>>

\* a producer and the running worker, and a third thread that polls
\* PendingCount()
ObserverNext == Log \/ PushSteps \/ RunningWorker \/ Size_LoadWrite \/ Size_LoadRead

ObserverSpec == RunningInit /\ [][ObserverNext]_vars

\* Log called on the constructed logger before its first Start(), until the
\* ring is full and one record was dropped
LogBeforeStart == Len(pushed) < kCapacity /\ LogWhileStopped

\* a producer that logs before the first Start(), the worker, one thread
\* that calls Stop() and a second thread that calls Start() and Stop(), all
\* on one consumer
RaceNext == LogBeforeStart \/ PushSteps \/ Worker \/ StopOnly \/ SecondThread

RaceSpec == Init /\ [][RaceNext]_vars

\* a producer that logs while the tick counter advances and the worker runs
TickNext == TscTick \/ Log \/ PushSteps \/ RunningWorker

TickSpec == RunningInit /\ [][TickNext]_vars

(* ------------------------------ properties ----------------------------- *)

\* position of the producer inside one Log call; every step moves forward
Rank(pc) ==
    CASE pc = "idle" -> 0
      [] pc = "push" -> 1
      [] pc = "load_r" -> 2
      [] pc = "check" -> 3
      [] pc = "construct" -> 4
      [] pc = "publish" -> 5
      [] pc = "full" -> 4

\* the producer is between the full check and the store of write_index_
ProducerInSlot == p_pc \in {"construct", "publish"}

\* the worker is between the empty check and the store of read_index_
ConsumerInSlot == tp_pc \in {"move", "destroy", "publish"}

\* C1: elements come out of the ring in the order in which they went in: for
\* two popped elements, the one popped first was also pushed first.
FifoOrder ==
    \A i, j \in 1 .. Len(popped) :
        i < j => \E k, l \in 1 .. Len(pushed) :
                     k < l /\ pushed[k] = popped[i] /\ pushed[l] = popped[j]

\* C1 witness: more elements than the ring has slots were popped, so slots were reused
FifoOrderWitness == Len(popped) > kCapacity

\* C2: the popped sequence is a prefix of the pushed sequence, and the two
\* are equal whenever the ring is empty.
PoppedIsPrefix ==
    /\ Len(popped) <= Len(pushed)
    /\ \A i \in 1 .. Len(popped) : popped[i] = pushed[i]
    /\ (write_index = read_index => popped = pushed)

\* C2 witness: the ring is empty again after several elements went through it
PoppedIsPrefixWitness == write_index = read_index /\ Len(popped) >= 3

\* C3: the occupancy write_index - read_index is the number of elements
\* pushed and not yet popped, and lies in 0 .. kCapacity - 1.
BoundedOccupancy ==
    /\ USub(write_index, read_index) \in 0 .. (kCapacity - 1)
    /\ USub(write_index, read_index) = Len(pushed) - Len(popped)

\* C3 witness: the ring is full while a pop is in progress
BoundedOccupancyWitness ==
    USub(write_index, read_index) = kCapacity - 1 /\ ConsumerInSlot

\* C4: TryPush fails exactly when the indices it loaded are kCapacity - 1
\* apart; with no pop, kCapacity - 1 pushes succeed and the next fails.
PushFalseIffFull ==
    /\ p_pc = "full" => USub(p_write_idx, p_read_idx) = kCapacity - 1
    /\ ProducerInSlot => USub(p_write_idx, p_read_idx) # kCapacity - 1
    /\ (Len(popped) = 0 /\ read_index = 0) =>
           /\ Len(pushed) <= kCapacity - 1
           /\ p_pc = "full" => Len(pushed) = kCapacity - 1
           /\ ProducerInSlot => Len(pushed) < kCapacity - 1

\* C4 witness: a push was refused after kCapacity - 1 pushes and no pop
PushFalseIffFullWitness ==
    p_pc = "full" /\ Len(popped) = 0 /\ read_index = 0 /\ Len(pushed) = kCapacity - 1

\* C5: TryPop returns false exactly when the indices it loaded are equal, and
\* never when a published element was in the ring at its load of write_index_.
PopFalseIffEmpty ==
    [][(tp_pc = "check" /\ tp_pc' # "check") =>
           /\ (tp_pc' = "none") <=> (c_write_idx = c_read_idx)
           /\ (tp_pc' = "move") <=> (c_write_idx # c_read_idx)
           /\ tp_nonempty => tp_pc' = "move"]_vars

\* C5 witness: a TryPop has just found the ring empty after earlier pops succeeded
PopFalseIffEmptyWitness == c_pc = "flush" /\ Len(popped) >= 1 /\ ~tp_nonempty

\* C6: the producer and the worker are never inside the same slot at once.
NoSlotRace ==
    ~(ProducerInSlot /\ ConsumerInSlot /\ SlotOf(p_write_idx) = SlotOf(c_read_idx))

\* C6 witness: both threads are inside a slot at the same time
NoSlotRaceWitness == p_pc = "construct" /\ tp_pc = "move"

\* C7: when a Stop() that stopped the worker returns, the records accepted
\* before the call have been written, and the ring is empty unless a push
\* was accepted meanwhile.
StopDrains ==
    m_pc = "stop_done" =>
        /\ Len(sink_writes) >= stop_mark
        /\ (Len(pushed) = stop_mark => write_index = read_index)

\* C8: the lines written to the sink are the renderings of a prefix of the
\* accepted records, one line per record, in order.
SinkWritesPrefixOfAccepted ==
    /\ Len(sink_writes) <= Len(pushed)
    /\ \A i \in 1 .. Len(sink_writes) : sink_writes[i] = FormatRecord(pushed[i])

\* C8 witness: a record popped in the spin phase is about to be the third line
SinkWritesPrefixWitness ==
    c_pc = "after_spin" /\ found_activity /\ Len(sink_writes) >= 2

\* C9: a Log call makes at most one TryPush attempt (exactly one unless it
\* returns Error), is never blocked, and each of its steps moves it forward.
LogSinglePush ==
    /\ [](/\ try_push_calls <= 1
          /\ (p_pc = "idle" /\ log_result \in {"Success", "BufferFull"}) => try_push_calls = 1
          /\ (p_pc = "idle" /\ log_result = "Error") => try_push_calls = 0
          /\ p_pc # "idle" => ENABLED Producer)
    /\ [][(prodVars' # prodVars /\ p_pc' # "idle") => Rank(p_pc') > Rank(p_pc)]_vars

\* C9 witness: a Log call returned BufferFull while the worker was asleep
LogSinglePushWitness == p_pc = "idle" /\ log_result = "BufferFull" /\ c_pc = "sleep"

\* C10: Log returns Error exactly for a null message, Success exactly when
\* its record was enqueued, BufferFull exactly when the ring was full at the
\* check; only the two steps of an accepted push change the ring.
LogResultContract ==
    /\ [][(prodVars' # prodVars /\ p_pc' = "idle") =>
              /\ (log_result' = "Error") <=> (log_message' = NullMsg)
              /\ (log_result' = "Success") <=>
                     /\ pushed' = Append(pushed, p_record)
                     /\ write_index' = UInc(write_index)
              /\ (log_result' = "BufferFull") <=>
                     /\ p_pc = "full"
                     /\ USub(p_write_idx, p_read_idx) = kCapacity - 1
              /\ log_result' \in {"Error", "BufferFull"} =>
                     UNCHANGED <<write_index, read_index, storage, pushed>>]_vars
    /\ [][(prodVars' # prodVars /\ p_pc \notin {"construct", "publish"}) =>
              UNCHANGED <<write_index, read_index, storage, pushed>>]_vars
    /\ [](p_pc = "full" => write_index = p_write_idx)

\* C10 witness: all three results have occurred, the last one being Error
LogResultContractWitness ==
    log_result = "Error" /\ log_message = NullMsg /\ dropped_count >= 1 /\ Len(pushed) >= 1

\* no pop has started to free a slot: the consumer is not draining
NotDrained == Len(popped) = 0 /\ read_index = 0

\* C12: between Log calls the dropped counter equals the number of calls that
\* returned BufferFull; with the consumer not draining, the first
\* kCapacity - 1 calls with a message were accepted and all later ones dropped.
DropAccounting ==
    p_pc = "idle" =>
        /\ dropped_count = next_msg - Len(pushed)
        /\ NotDrained =>
               /\ Len(pushed) = Min(next_msg, kCapacity - 1)
               /\ \A i \in 1 .. Len(pushed) : pushed[i].message = i

\* C12 witness: more calls than the ring holds were made and none was popped
DropAccountingWitness ==
    p_pc = "idle" /\ NotDrained /\ Len(pushed) = kCapacity - 1 /\ dropped_count >= 2

\* C13: a run of Start calls spawns exactly one worker, a run of Stop calls
\* joins at most once, and a Start on a running consumer or a Stop on a
\* stopped one changes nothing.
IdempotentLifecycle ==
    /\ [](/\ spawns_in_run <= 1
          /\ joins_in_run <= 1
          /\ started_in_run => spawns_in_run = 1)
    /\ [][((m_pc = "start_cas" /\ is_running) \/ (m_pc = "stop_cas" /\ ~is_running))
          /\ m_pc' # m_pc
              => UNCHANGED <<is_running, thread_, ringVars, prodVars, consVars, sinkVars>>]_vars

\* C13 witness: Start is called again on a running consumer
IdempotentLifecycleWitness == m_pc = "start_cas" /\ started_in_run /\ is_running

\* no lifecycle call is in progress
Quiescent == m_pc \in {"idle", "destroyed"}

\* the worker thread exists
WorkerExists == c_pc # "none"

\* C14: between lifecycle calls the flag is set exactly when a worker thread
\* exists; it is clear at creation; Start returns with it set, Stop returns
\* with it clear, and the destructor ends with it clear and no worker.
LifecycleStates ==
    /\ [](/\ Quiescent => (is_running <=> WorkerExists) /\ (is_running <=> thread_ = "joinable")
          /\ m_pc = "destroyed" => ~is_running /\ ~WorkerExists)
    /\ [][(m_pc \in {"start_cas", "start_spawn"} /\ m_pc' = "idle")
              => is_running' /\ WorkerExists']_vars
    /\ [][(m_pc \in {"stop_cas", "stop_done"} /\ m_pc' \notin {"stop_join", m_pc})
              => ~is_running' /\ ~WorkerExists']_vars

\* C14 witness: the destructor is stopping a running worker
LifecycleStatesWitness == m_pc = "stop_join" /\ destroying = "logger" /\ WorkerExists

\* number of elements pushed and not yet popped
InRing == Len(pushed) - Len(popped)

\* C15: with indices that wrap modulo IndexMod, the occupancy stays within
\* 0 .. kCapacity - 1 and equals the index difference, the full and empty
\* tests answer for the true content of the ring, and elements leave in the
\* order they entered, also after write_index and then read_index wrapped.
WrapSafe ==
    /\ InRing \in 0 .. (kCapacity - 1)
    /\ USub(write_index, read_index) = InRing
    /\ popped = SubSeq(pushed, 1, Len(popped))
    /\ ProducerInSlot => InRing < kCapacity - 1
    /\ (p_pc = "full" /\ read_index = p_read_idx) => InRing = kCapacity - 1
    /\ ConsumerInSlot => InRing >= 1
    /\ (tp_pc = "check" /\ write_index = c_write_idx) =>
           ((c_read_idx = c_write_idx) <=> (InRing = 0))

\* C15 witness: read_index has just wrapped to 0 behind a write_index that
\* wrapped before it, with elements still in the ring
WrapSafeWitness ==
    read_index = 0 /\ Len(popped) = IndexMod - WrapStart /\ write_index \in 1 .. (kCapacity - 1)

\* a LogFormat call with a null fmt has returned
NullFormatReturned == p_pc = "idle" /\ log_call = "LogFormat" /\ log_message = NullMsg

\* C11: a LogFormat call with a null format string returns Error, and no
\* record with the empty text such a call prepares is ever enqueued.
NullFormatIsError ==
    /\ NullFormatReturned => log_result = "Error"
    /\ \A i \in 1 .. Len(pushed) : pushed[i].message # EmptyText

\* the timestamps of a sequence of records never decrease
NonDecreasingTicks(recs) ==
    \A i, j \in 1 .. Len(recs) : i < j => recs[i].timestamp <= recs[j].timestamp

\* C16: with a tick counter that never goes backwards, the records accepted
\* from the producer carry non-decreasing timestamps in call order, the
\* record of a call in progress is not older than any accepted one, and the
\* worker pops records with non-decreasing timestamps.
MonotonicTicks ==
    /\ NonDecreasingTicks(pushed)
    /\ NonDecreasingTicks(popped)
    /\ (p_pc # "idle" /\ Len(pushed) >= 1) =>
           pushed[Len(pushed)].timestamp <= p_record.timestamp

\* C16 witness: the worker has popped two records stamped at different ticks
MonotonicTicksWitness ==
    Len(popped) >= 2 /\ popped[1].timestamp < popped[Len(popped)].timestamp

\* C17: after any sequence of SetMessage / FormatMessage calls on a record,
\* message_length is below MaxMessageSize and the byte at message_length is 0.
MessageTerminated ==
    rec_op # "none" =>
        /\ lrec.message_length < MaxMessageSize
        /\ lrec.message[lrec.message_length] = 0

\* C17 witness: a one-byte message was stored over a message of full length,
\* whose bytes are still behind the terminator
MessageTerminatedWitness ==
    /\ rec_op = "SetMessage"
    /\ lrec.message_length = 1
    /\ lrec.message[MaxMessageSize - 2] \in 97 .. 99

\* C18: a call stores the first Min(n, MaxMessageSize - 1) bytes of its text
\* of length n and returns that number; a text of MaxMessageSize bytes or
\* more is cut to MaxMessageSize - 1; a rendering error stores the empty text.
StoresPrefix ==
    rec_op # "none" =>
        /\ lrec.message_length = Min(Len(rec_in), MaxMessageSize - 1)
        /\ \A i \in 1 .. lrec.message_length : lrec.message[i - 1] = rec_in[i]
        /\ Len(rec_in) >= MaxMessageSize => lrec.message_length = MaxMessageSize - 1
        /\ rec_ret = lrec.message_length
        /\ rec_op = "FormatMessageError" => lrec.message_length = 0

\* C18 witness: FormatMessage rendered more than fits and the text was cut
StoresPrefixWitness ==
    /\ rec_op = "FormatMessage"
    /\ Len(rec_in) > MaxMessageSize
    /\ lrec.message_length = MaxMessageSize - 1

\* C19: the line handed to the sink for a record ends with the record's
\* complete message followed by a newline.
LineKeepsMessage ==
    rec_op = "Write" =>
        LET line == sink_writes[Len(sink_writes)]
            m == lrec.message_length
        IN  /\ Len(line) >= m + 1
            /\ line[Len(line)] = 10
            /\ \A i \in 1 .. m : line[Len(line) - 1 - m + i] = lrec.message[i - 1]

\* C20: while the consumer stays running, the n-th accepted record is
\* eventually the n-th line written to the sink, for every n.
EventuallyWritten ==
    \A n \in 1 .. MaxLog : (Len(pushed) >= n) ~> (Len(sink_writes) >= n)

\* C20 witness: a record was accepted while the worker is in its sleep and
\* is still waiting in the ring
EventuallyWrittenWitness ==
    c_pc = "sleep" /\ is_running /\ InRing >= 1 /\ Len(pushed) > Len(sink_writes)

\* C24: a producer step never changes read_index and a worker step never
\* changes write_index; write_index changes only in the publishing step of a
\* successful TryPush, read_index only in that of a successful TryPop, and
\* each change is an advance by exactly one position, modulo IndexMod.
IndexOwnership ==
    [][/\ prodVars' # prodVars => read_index' = read_index
       /\ consVars' # consVars => write_index' = write_index
       /\ write_index' # write_index =>
              /\ p_pc = "publish" /\ log_result' = "Success"
              /\ write_index' = (write_index + 1) % IndexMod
       /\ read_index' # read_index =>
              /\ tp_pc = "publish" /\ c_pc' = PopSucceeded(c_pc)
              /\ read_index' = (read_index + 1) % IndexMod
       /\ (p_pc = "publish" /\ p_pc' = "idle") => write_index' # write_index
       /\ (tp_pc = "publish" /\ tp_pc' = "none") => read_index' # read_index]_vars

\* C24 witness: the worker is about to advance read_index behind a
\* write_index that has wrapped
IndexOwnershipWitness == tp_pc = "publish" /\ write_index < read_index

\* C25: the steps of a TryPush up to and including a false return change no
\* slot and no index; the steps of a TryPop up to and including a false
\* return change no slot, no index and not the caller's record.
FailedOpsTouchNothing ==
    [][/\ (p_pc \in {"push", "load_r", "check", "full"} /\ prodVars' # prodVars)
              => UNCHANGED <<write_index, read_index, storage>>
       /\ (tp_pc \in {"load_w", "load_r", "check"} /\ tp_pc' # "move" /\ consVars' # consVars)
              => UNCHANGED <<write_index, read_index, storage, record, popped>>]_vars

\* C25 witness: a TryPush has found the ring full and, after the worker
\* emptied it, a TryPop has found it empty
FailedOpsTouchNothingWitness == p_pc = "full" /\ c_pc = "flush" /\ Len(popped) >= 1

\* the slots that hold a constructed element
LiveSlots == {s \in Slots : storage[s] # NoRecord}

\* C26: TryPush constructs only into an empty slot, TryPop moves from and
\* destroys only a live one, and the live slots are exactly those between
\* the indices, plus the one being pushed, minus the one being popped.
SlotsAlternate ==
    /\ [](Cardinality(LiveSlots) =
              USub(write_index, read_index)
                  + (IF p_pc = "publish" THEN 1 ELSE 0)
                  - (IF tp_pc = "publish" THEN 1 ELSE 0))
    /\ [][(p_pc = "construct" /\ p_pc' = "publish") =>
              /\ SlotOf(p_write_idx) \notin LiveSlots
              /\ SlotOf(p_write_idx) \in LiveSlots']_vars
    /\ [][(tp_pc = "move" /\ tp_pc' = "destroy") => SlotOf(c_read_idx) \in LiveSlots]_vars
    /\ [][(tp_pc = "destroy" /\ tp_pc' = "publish") =>
              /\ SlotOf(c_read_idx) \in LiveSlots
              /\ SlotOf(c_read_idx) \notin LiveSlots']_vars

\* C26 witness: an element has been constructed in a slot that was
\* constructed and destroyed before
SlotsAlternateWitness == p_pc = "publish" /\ Len(pushed) >= kCapacity

\* the worker holds a popped record it has not handed to the sink yet
WritePending == c_pc = "fast_write" \/ (c_pc = "after_spin" /\ found_activity)

\* C27: the records written to the sink are the popped records, in order and
\* once each; at most the record just popped is still to be written, and
\* whenever the worker is in or about to begin a TryPop, is at the shutdown
\* label or has exited, every popped record has been written.
PoppedWrittenOnce ==
    /\ Len(sink_writes) = Len(popped) - (IF WritePending THEN 1 ELSE 0)
    /\ \A i \in 1..Len(sink_writes) : sink_writes[i] = FormatRecord(popped[i])
    /\ WritePending => record = popped[Len(popped)]
    /\ (tp_pc = "publish" \/ c_pc \in {"shutdown", "exited"}) => ~WritePending

\* C27 witness: the worker has popped a record inside the spin phase, after
\* a record it wrote before, and Stop() has cleared the flag meanwhile
PoppedWrittenOnceWitness ==
    /\ c_pc = "after_spin"
    /\ found_activity
    /\ ~is_running
    /\ Len(sink_writes) >= 1
    /\ Len(popped) = Len(sink_writes) + 1

\* C28: once Stop() has cleared the flag the worker begins no further TryPop
\* and no further sleep: the loop head and every spin iteration lead to the
\* shutdown label, the end of the spin phase and the end of a sleep lead to
\* the loop head; so the worker reaches its exit and the Stop() that waits
\* in join returns.
StopTerminates ==
    /\ [][~is_running => /\ (tp_pc' = "load_w" => tp_pc = "load_w")
                         /\ (c_pc' = "sleep" => c_pc = "sleep")]_vars
    /\ [][(~is_running /\ c_pc' # c_pc) =>
              /\ c_pc = "while" => c_pc' = "shutdown"
              /\ (c_pc = "spin" /\ spin_i < SpinCount) => c_pc' = "shutdown"
              /\ (c_pc = "spin" /\ spin_i >= SpinCount) => c_pc' = "after_spin"
              /\ c_pc = "after_spin" => c_pc' = "while"
              /\ c_pc = "sleep" => c_pc' = "while"]_vars
    /\ (m_pc = "stop_join") ~> (c_pc = "exited")
    /\ (m_pc = "stop_join") ~> (m_pc = "idle" /\ thread_ = "none")

\* C28 witness: Stop() has returned after joining a worker that was asleep
\* or popping when the flag was cleared
StopTerminatesWitness ==
    /\ m_pc = "idle"
    /\ thread_ = "none"
    /\ joins_in_run = 1
    /\ Len(popped) >= 1

\* C29: the sink's last call becomes a Flush only in the step after a
\* fast-path TryPop that found the ring empty or in the shutdown step; the
\* fast-path write makes no Flush and goes straight back to the loop head.
FlushOnlyWhenEmpty ==
    /\ [][(sink_last' = "flush" /\ sink_last # "flush") => c_pc \in {"flush", "shutdown"}]_vars
    /\ [][(c_pc' = "flush" /\ c_pc # "flush") =>
              /\ c_pc = "fast_pop" /\ tp_pc = "check"
              /\ c_write_idx = c_read_idx]_vars
    /\ [][(c_pc = "fast_write" /\ c_pc' # c_pc) =>
              /\ c_pc' = "while"
              /\ sink_last' = "write"
              /\ sink_writes' = Append(sink_writes, FormatRecord(record))]_vars
    /\ [](c_pc = "exited" => sink_last = "flush")

\* C29 witness: a record popped on the fast path right after the write of
\* its predecessor, with no Flush in between
FlushOnlyWhenEmptyWitness ==
    /\ c_pc = "fast_write"
    /\ sink_last = "write"
    /\ Len(sink_writes) >= 1

\* C30: a worker that has exited made a Flush as its last sink call, and so
\* has every worker that Stop() has joined.
LastCallIsFlush ==
    (c_pc = "exited" \/ thread_ = "none") => sink_last = "flush"

\* C30 witness: Stop() has returned and the worker had written records
LastCallIsFlushWitness ==
    /\ m_pc = "idle"
    /\ thread_ = "none"
    /\ Len(sink_writes) >= 2

\* C21: a sink call that fails leaves every producer variable, the value
\* returned by Log included, unchanged and leaves the worker inside its loop;
\* whatever the sink does, every accepted record is popped and handed to it.
SinkFailureHarmless ==
    /\ [][sinkVars' # sinkVars =>
              /\ UNCHANGED <<prodVars, ringVars, is_running>>
              /\ c_pc' \in {"while", "spin"}]_vars
    /\ [](c_pc \notin {"shutdown", "exited"})
    /\ \A n \in 1 .. MaxLog :
           (Len(pushed) >= n) ~> (Len(popped) >= n /\ Len(sink_writes) >= n)

\* C21 witness: a flush was reported as failed, a write after it was made,
\* and the worker has popped the record after that one
SinkFailureHarmlessWitness ==
    /\ last_error = "FlushFailed"
    /\ sink_last = "write"
    /\ c_pc = "fast_write"

\* the results the consumer thread got, in the order of its calls
StreamNs == SelectSeq(conv_log, LAMBDA e : e.thread = 1)

\* C22: the nanosecond values one thread derives for a stream of records are
\* non-decreasing in the order of the stream, whatever the ticks.
NsNonDecreasing ==
    \A i, j \in 1 .. Len(StreamNs) : i < j => StreamNs[i].ns <= StreamNs[j].ns

\* C23: the initializer is entered at most once, and by the first call; once
\* the static is initialized its ticks_per_ns is strictly positive and no
\* step changes it; every call divides by the initialized value.
CalibratedOnce ==
    /\ [](init_runs <= 1)
    /\ []((guard = "uninit") <=> (init_runs = 0))
    /\ [](guard = "done" => calibration.num > 0 /\ calibration.den > 0)
    /\ [](\A t \in CallerThreads : k_pc[t] = "convert" => guard = "done")
    /\ [](Len(conv_log) >= 1 => guard = "done" /\ init_runs = 1)
    /\ [][guard = "done" => (guard' = "done" /\ calibration' = calibration)]_vars
    /\ [][calibration' # calibration => (guard = "pending" /\ guard' = "done")]_vars

\* C23 witness: both threads made their first call concurrently, one ran the
\* initializer, which substituted 1.0 for a measured ratio of zero, and both
\* are about to divide
CalibratedOnceWitness ==
    /\ \A t \in CallerThreads : k_pc[t] = "convert"
    /\ conv_log = <<>>
    /\ init_runs = 1
    /\ calibration = [num |-> 1, den |-> 1]

\* C31: the worker enters the sleep only from the code after the spin loop,
\* with no record found and the flag read as set in that step; it gets there
\* only from a spin loop that ran out of iterations; an iteration is counted
\* only by a TryPop that found the ring empty, begun after the flag was read
\* as set; the count starts at 0 in the Flush step; and no other sink call
\* is made between that Flush and the sleep.
SleepOnlyAfterIdleSpin ==
    /\ [][(c_pc' = "sleep" /\ c_pc # "sleep") =>
              /\ c_pc = "after_spin" /\ ~found_activity
              /\ is_running]_vars
    /\ [][(c_pc' = "after_spin" /\ c_pc # "after_spin" /\ ~found_activity') =>
              /\ c_pc = "spin" /\ spin_i = SpinCount]_vars
    /\ [][spin_i' > spin_i =>
              /\ spin_i' = spin_i + 1
              /\ c_pc = "spin_pop" /\ tp_pc = "check" /\ c_write_idx = c_read_idx
              /\ c_pc' = "spin"]_vars
    /\ [][(c_pc' = "spin_pop" /\ c_pc # "spin_pop") =>
              /\ c_pc = "spin" /\ is_running /\ spin_i < SpinCount]_vars
    /\ [][(c_pc' = "spin" /\ c_pc \notin {"spin", "spin_pop"}) =>
              /\ c_pc = "flush" /\ spin_i' = 0 /\ sink_last' = "flush"]_vars
    /\ []((c_pc \in {"spin", "spin_pop", "sleep"} \/ (c_pc = "after_spin" /\ ~found_activity))
              => sink_last = "flush")
    /\ [](spin_i \in 0 .. SpinCount)

\* C31 witness: the worker sleeps after it had written records, and Stop()
\* has cleared the flag since it was last read
SleepOnlyAfterIdleSpinWitness ==
    /\ c_pc = "sleep"
    /\ Len(sink_writes) >= 1
    /\ ~is_running

\* a TryPush or a TryPop is between its first load and its return
RingOpInProgress ==
    \/ p_pc \in {"push", "load_r", "check", "construct", "publish"}
    \/ tp_pc # "none"

\* C32: when no push or pop is in progress, Size() is the number of elements
\* pushed and not yet popped, Empty() holds exactly when that number is 0
\* and Full() exactly when it is kCapacity - 1.
SizeIsOccupancy ==
    ~RingOpInProgress =>
        /\ Size = Len(pushed) - Len(popped)
        /\ Empty <=> (Len(pushed) - Len(popped) = 0)
        /\ Full <=> (Len(pushed) - Len(popped) = kCapacity - 1)

\* C32 witness: the ring is full and at rest, with write_index_ wrapped
\* around the index type and read_index_ not yet
SizeIsOccupancyWitness ==
    /\ ~RingOpInProgress
    /\ write_index < read_index
    /\ Full
    /\ Len(popped) >= 1

\* C39: when ~Logger and ~Consumer have made their Stop() calls and the
\* members are destroyed, no worker thread exists and thread_ is not
\* joinable; from then on no step pops, formats, writes or touches the ring.
JoinedBeforeRingDestroyed ==
    /\ [](m_pc = "destroyed" =>
              /\ c_pc = "none" /\ tp_pc = "none"
              /\ thread_ = "none"
              /\ ~is_running
              /\ Len(sink_writes) = Len(popped))
    /\ [][m_pc = "destroyed" => UNCHANGED <<consVars, sinkVars, ringVars>>]_vars
    /\ [][(m_pc' = "destroyed" /\ m_pc # "destroyed") =>
              /\ destroying = "consumer"
              /\ m_pc \in {"stop_cas", "stop_done"}]_vars

\* C39 witness: a Logger destroyed while its worker was running
JoinedBeforeRingDestroyedWitness ==
    /\ m_pc = "destroyed"
    /\ joins_in_run = 1
    /\ sink_last = "flush"
    /\ Len(sink_writes) >= 1

\* the k-th element of the ring, counted from read_index_
RingAt(k) == storage[SlotOf((read_index + k - 1) % IndexMod)]

TimestampField(line) ==
    LET close == {i \in 1 .. Len(line) : line[i] = 93}
    IN  IF close = {} \/ line[1] # 91 THEN <<>>
        ELSE SubSeq(line, 2, (CHOOSE i \in close : \A j \in close : i <= j) - 1)

\* C33: the timestamp field of the line the worker formats holds the digits
\* of TscToNanoseconds(record.timestamp), for ticks the conversion is
\* modelled for.
TimestampIsConverted ==
    (rec_op \in {"FormatRecord", "Write"} /\ lrec.timestamp <= MaxTick) =>
        TimestampField(scratch_buffer) = FormatD(Convert(lrec.timestamp, calibration))

\* the positions of Loop from which, with the flag cleared, the worker only
\* leaves: the loop condition, the shutdown flush, and after its return
PastLastWrite == c_pc \in {"while", "shutdown", "exited", "none"}

SizeInRange == size_ret \in 0 .. kCapacity - 1

\* C34: for any interleaving of Start() and Stop() calls from several
\* threads at most one worker is alive: a Start that constructs the worker
\* finds no worker alive, and thread_ is never assigned while still joinable.
OneWorkerAtATime ==
    [][(m2_pc = "start_spawn" /\ m2_pc' # "start_spawn") =>
            (thread_ = "none" /\ c_pc = "none")]_vars

\* a Stop() call of either thread returns
StopReturns ==
    \/ m_pc \in {"stop_cas", "stop_done"} /\ m_pc' = "idle"
    \/ m2_pc \in {"stop_cas", "stop_done"} /\ m2_pc' = "idle"

\* C35: whenever a Stop() call returns with the flag cleared the worker has
\* terminated and been joined, also beside a concurrent Stop() or Start();
\* and with the flag cleared and no lifecycle call in progress no spawned
\* worker is left running or unjoined.
StopReturnsJoined ==
    /\ [][(StopReturns /\ ~is_running' /\ thread_' # "terminated") =>
            (thread_' = "none" /\ c_pc' = "none")]_vars
    /\ []((~is_running /\ m_pc = "idle" /\ m2_pc = "idle" /\ thread_ # "terminated") =>
            (thread_ = "none" /\ c_pc = "none"))

====
